---- MODULE Spec2Model ----
(***************************************************************************)
(* LayerManager (src/js/layerManager.js) as a state machine.               *)
(*                                                                         *)
(* The JavaScript array this.layers is the sequence `layers` (1-based      *)
(* here, 0-based in the source).  An array slot that holds the value       *)
(* undefined is the record Undefined; reading a property of it raises a    *)
(* TypeError, which ends the running method with the writes made so far.   *)
(* The own property "-1" that moveLayerDown can create on the array is     *)
(* the variable layersMinus1.                                              *)
(***************************************************************************)
EXTENDS Integers, Sequences, FiniteSets, TLC

\* ---------------------------------------------------------------- bounds
MaxLayerId == 3
MaxObjects == 1
MaxHeld == 2
MaxCount == 1
MaxStack == 2
MaxRegs == 2
MaxAdds == 52
MaxClicks == 4

\* ---------------------------------------------------------------- inputs
\* Object handles (meshes) and the userData.id each carries (app.js:410).
Handles == {1}

\* userData.id is Date.now() at the time the mesh is made: mesh 3 is made in
\* the same millisecond as mesh 1 and carries its id.
UserDataId(h) == IF h = 3 THEN 1 ELSE h

\* The handles of the runs about objects: two meshes, each of which a caller
\* may pass any number of times.
ObjHandles == {1, 2}

\* Three meshes of one scene, two of them with the same userData.id.
Meshes == {1, 2, 3}

\* Layer ids passed by callers: existing ids and ids of no layer.
ArgIds == 1 .. MaxLayerId

\* "Layer n", the name the constructor gives layer 1.
DefaultName(n) == <<"Layer", n>>

\* The name callers pass to addLayer and renameLayer (app.js:981,
\* layerManager.js:249: the text of an input field).
CustomName == <<"Custom", 0>>

\* Elements of the array given to reorderLayers.  "id": the number n or the
\* string "n".  "prefix": a value that is no layer id but that parseInt
\* reads as n, such as n + 0.5 or the string "n.5".
TokenKinds == {"id", "prefix"}

Token(k, n) == [kind |-> k, n |-> n]

\* ---------------------------------------------------------------- state
VARIABLES layers, layersMinus1, currentLayerId, nextLayerId, usedIds, orphans, last

\* The state manager: its tree, the item in localStorage, its listeners, the
\* callbacks subscribed since the page was loaded (in the order of the
\* subscribe calls) and the last call made to it.
VARIABLES state, storage, listeners, subscribed, done

\* The application (app.js): its list of all object handles, and the handles
\* whose visible flag is set.
VARIABLES objectList, shown

layerVars == <<layers, layersMinus1, currentLayerId, nextLayerId, usedIds, orphans, last>>

sceneVars == <<objectList, shown>>

appVars == <<state, storage, listeners, subscribed, done>>

vars == <<layers, layersMinus1, currentLayerId, nextLayerId, usedIds, orphans, last,
          state, storage, listeners, subscribed, done, objectList, shown>>

Undefined == [id |-> 0, name |-> <<"undefined", 0>>, visible |-> FALSE, objects |-> <<>>]

NewLayer(id, name) == [id |-> id, name |-> name, visible |-> TRUE, objects |-> <<>>]

\* The store as one value: what a method reads and what it leaves behind.
Store(ls, m1, cur, nxt) == [layers |-> ls, minus1 |-> m1, currentLayerId |-> cur, nextLayerId |-> nxt]

Here == Store(layers, layersMinus1, currentLayerId, nextLayerId)

\* A method's outcome: the store it leaves, the kind of value returned
\* ("true", "false", "null", "layer", "list", or "TypeError" when it raised)
\* and the value itself for "layer" and "list".
Outcome(S, ret, val) == [store |-> S, ret |-> ret, val |-> val]

Bool(b) == IF b THEN "true" ELSE "false"

\* ---------------------------------------------------------------- array helpers
SetMin(s) == CHOOSE x \in s : \A y \in s : x <= y

Holes(ls) == {i \in 1 .. Len(ls) : ls[i] = Undefined}

HasId(ls, id) == {i \in 1 .. Len(ls) : ls[i] # Undefined /\ ls[i].id = id}

\* Array.prototype.findIndex / find with the callback layer => layer.id === id:
\* the scan stops at the first match; the callback raises on an undefined
\* slot met before it.
FindThrows(ls, id) ==
    /\ Holes(ls) # {}
    /\ \A i \in HasId(ls, id) : SetMin(Holes(ls)) < i

\* 1-based position of the first match, 0 for the source's -1.
FindIndex(ls, id) == IF HasId(ls, id) = {} THEN 0 ELSE SetMin(HasId(ls, id))

\* find with layer => layer.id !== id (removeLayer's fallback).
FindOtherThrows(ls, id) ==
    /\ Holes(ls) # {}
    /\ \A i \in 1 .. Len(ls) : (ls[i] # Undefined /\ ls[i].id # id) => SetMin(Holes(ls)) < i

FindOther(ls, id) ==
    LET s == {i \in 1 .. Len(ls) : ls[i] # Undefined /\ ls[i].id # id}
    IN  IF s = {} THEN 0 ELSE SetMin(s)

RemoveAt(s, i) == [j \in 1 .. Len(s) - 1 |-> IF j < i THEN s[j] ELSE s[j + 1]]

RECURSIVE Flatten(_)
Flatten(ss) == IF ss = <<>> THEN <<>> ELSE Head(ss) \o Flatten(Tail(ss))

\* ---------------------------------------------------------------- methods
\* addLayer without `this.nextLayerId++`.
AddLayerNoIncrement(S, name) ==
    LET newLayer == NewLayer(S.nextLayerId, name)
    IN  Outcome(Store(Append(S.layers, newLayer), S.minus1, newLayer.id, S.nextLayerId),
                "layer", <<newLayer>>)

AddLayer(S, name) ==
    LET newLayer == NewLayer(S.nextLayerId, name)
    IN  Outcome(Store(Append(S.layers, newLayer), S.minus1, newLayer.id, S.nextLayerId + 1),
                "layer", <<newLayer>>)

\* removeLayer variants: the id counter handed back on removal; the guard
\* written `< 1`; the fallback taken from the end of the array.
RemoveLayerWith(S, layerId, minLen, releaseId, fallbackLast) ==
    IF Len(S.layers) <= minLen THEN Outcome(S, "false", <<>>)
    ELSE IF FindThrows(S.layers, layerId) THEN Outcome(S, "TypeError", <<>>)
    ELSE LET layerIndex == FindIndex(S.layers, layerId) IN
    IF layerIndex = 0 THEN Outcome(S, "false", <<>>)
    ELSE LET others == {i \in 1 .. Len(S.layers) : S.layers[i] # Undefined /\ S.layers[i].id # layerId}
             fallback == IF others = {} THEN 0
                         ELSE IF fallbackLast THEN CHOOSE i \in others : \A j \in others : j <= i
                         ELSE SetMin(others)
             cur == IF layerId = S.currentLayerId /\ fallback # 0
                    THEN S.layers[fallback].id ELSE S.currentLayerId
         IN  Outcome(Store(RemoveAt(S.layers, layerIndex), S.minus1, cur,
                           IF releaseId THEN S.nextLayerId - 1 ELSE S.nextLayerId),
                     "true", <<>>)

RemoveLayerReleasesId(S, layerId) == RemoveLayerWith(S, layerId, 1, TRUE, FALSE)

RemoveLayerGuardOffByOne(S, layerId) == RemoveLayerWith(S, layerId, 0, FALSE, FALSE)

RemoveLayerFallbackLast(S, layerId) == RemoveLayerWith(S, layerId, 1, FALSE, TRUE)

\* removeLayer that hands the removed layer's objects to the first layer left.
RemoveLayerKeepsObjects(S, layerId) ==
    LET out == RemoveLayerWith(S, layerId, 1, FALSE, FALSE)
        gone == {i \in HasId(S.layers, layerId) : TRUE}
    IN  IF out.ret # "true" \/ out.store.layers[1] = Undefined THEN out
        ELSE [out EXCEPT !.store.layers[1].objects = @ \o S.layers[SetMin(gone)].objects]

RemoveLayer(S, layerId) ==
    IF Len(S.layers) <= 1 THEN Outcome(S, "false", <<>>)
    ELSE IF FindThrows(S.layers, layerId) THEN Outcome(S, "TypeError", <<>>)
    ELSE LET layerIndex == FindIndex(S.layers, layerId) IN
    IF layerIndex = 0 THEN Outcome(S, "false", <<>>)
    ELSE IF layerId = S.currentLayerId /\ FindOtherThrows(S.layers, layerId)
         THEN Outcome(S, "TypeError", <<>>)
    ELSE LET fallback == FindOther(S.layers, layerId)
             cur == IF layerId = S.currentLayerId /\ fallback # 0
                    THEN S.layers[fallback].id ELSE S.currentLayerId
         IN  Outcome(Store(RemoveAt(S.layers, layerIndex), S.minus1, cur, S.nextLayerId),
                     "true", <<>>)

RenameLayer(S, layerId, newName) ==
    IF FindThrows(S.layers, layerId) THEN Outcome(S, "TypeError", <<>>)
    ELSE LET i == FindIndex(S.layers, layerId) IN
    IF i # 0
    THEN Outcome([S EXCEPT !.layers[i].name = newName], "true", <<>>)
    ELSE Outcome(S, "false", <<>>)

SetCurrentLayer(S, layerId) ==
    IF FindThrows(S.layers, layerId) THEN Outcome(S, "TypeError", <<>>)
    ELSE IF FindIndex(S.layers, layerId) # 0
    THEN Outcome([S EXCEPT !.currentLayerId = layerId], "true", <<>>)
    ELSE Outcome(S, "false", <<>>)

\* getCurrentLayer: the position of the current layer, 0 when find gives undefined.
GetCurrentLayer(S) == FindIndex(S.layers, S.currentLayerId)

AddObjectToCurrentLayer(S, object) ==
    IF FindThrows(S.layers, S.currentLayerId) THEN Outcome(S, "TypeError", <<>>)
    ELSE LET i == GetCurrentLayer(S) IN
    IF i # 0
    THEN Outcome([S EXCEPT !.layers[i].objects = Append(@, object)], "true", <<>>)
    ELSE Outcome(S, "false", <<>>)

\* objects.findIndex(obj => obj.userData.id === object.userData.id), 0 for -1.
ObjectIndex(objects, object) ==
    LET s == {j \in 1 .. Len(objects) : UserDataId(objects[j]) = UserDataId(object)}
    IN  IF s = {} THEN 0 ELSE SetMin(s)

\* The layers of the for-of scan that hold a match.
Holders(ls, object) ==
    {i \in 1 .. Len(ls) : ls[i] # Undefined /\ ObjectIndex(ls[i].objects, object) # 0}

\* removeObjectFromLayer that removes every entry with the identity, in
\* every layer (filter in place of findIndex and splice).
RemoveObjectFromAllLayers(S, object) ==
    IF Holders(S.layers, object) = {} THEN Outcome(S, "false", <<>>)
    ELSE Outcome([S EXCEPT !.layers =
                     [i \in 1 .. Len(S.layers) |->
                         [S.layers[i] EXCEPT !.objects =
                             SelectSeq(@, LAMBDA obj : UserDataId(obj) # UserDataId(object))]]],
                 "true", <<>>)

RemoveObjectFromLayer(S, object) ==
    LET hs == Holders(S.layers, object)
        holes == Holes(S.layers)
    IN  IF holes # {} /\ \A i \in hs : SetMin(holes) < i
        THEN Outcome(S, "TypeError", <<>>)
        ELSE IF hs = {} THEN Outcome(S, "false", <<>>)
        ELSE LET i == SetMin(hs)
                 objectIndex == ObjectIndex(S.layers[i].objects, object)
             IN  Outcome([S EXCEPT !.layers[i].objects = RemoveAt(@, objectIndex)], "true", <<>>)

MoveObjectToLayer(S, object, targetLayerId) ==
    LET removed == RemoveObjectFromLayer(S, object)
        S1 == removed.store
    IN  IF removed.ret = "TypeError" THEN removed
        ELSE IF FindThrows(S1.layers, targetLayerId) THEN Outcome(S1, "TypeError", <<>>)
        ELSE LET t == FindIndex(S1.layers, targetLayerId) IN
        IF t # 0
        THEN Outcome([S1 EXCEPT !.layers[t].objects = Append(@, object)], "true", <<>>)
        ELSE Outcome(S1, "false", <<>>)

\* parseInt of one element: the leading integer of its text.
ParseInt(tok) == tok.n

RECURSIVE Digits(_)
Digits(n) == IF n < 10 THEN <<n>> ELSE Append(Digits(n \div 10), n % 10)

\* String order of two decimal texts, as Array.prototype.sort() without a
\* comparator uses.
RECURSIVE TextLeq(_, _)
TextLeq(a, b) ==
    IF a = <<>> THEN TRUE
    ELSE IF b = <<>> THEN FALSE
    ELSE IF Head(a) # Head(b) THEN Head(a) < Head(b)
    ELSE TextLeq(Tail(a), Tail(b))

RECURSIVE Insert(_, _)
Insert(s, x) ==
    IF s = <<>> THEN <<x>>
    ELSE IF TextLeq(Digits(x), Digits(Head(s))) THEN <<x>> \o s
    ELSE <<Head(s)>> \o Insert(Tail(s), x)

RECURSIVE DefaultSort(_)
DefaultSort(s) == IF s = <<>> THEN <<>> ELSE Insert(DefaultSort(Tail(s)), Head(s))

\* newOrderIds.sort() sorts the array in place, so the map that follows the
\* comparison walks the ids in sorted order, not in the order given.
ReorderLayers(S, newOrder) ==
    IF Holes(S.layers) # {} THEN Outcome(S, "TypeError", <<>>)
    ELSE LET currentLayerIds == [i \in 1 .. Len(S.layers) |-> S.layers[i].id]
             newOrderIds == [i \in 1 .. Len(newOrder) |-> ParseInt(newOrder[i])]
    IN  IF DefaultSort(currentLayerIds) # DefaultSort(newOrderIds)
        THEN Outcome(S, "false", <<>>)
        ELSE LET sorted == DefaultSort(newOrderIds)
             IN  Outcome([S EXCEPT !.layers = [i \in 1 .. Len(sorted) |->
                                                  S.layers[FindIndex(S.layers, sorted[i])]],
                                   !.minus1 = Undefined],
                         "true", <<>>)

\* moveLayerUp that takes the layer to the front of the array.
MoveLayerUpToFront(S, layerId) ==
    IF FindThrows(S.layers, layerId) THEN Outcome(S, "TypeError", <<>>)
    ELSE LET currentIndex == FindIndex(S.layers, layerId) IN
    IF currentIndex > 1
    THEN Outcome([S EXCEPT !.layers = <<S.layers[currentIndex]>>
                                          \o SubSeq(S.layers, 1, currentIndex - 1)
                                          \o SubSeq(S.layers, currentIndex + 1, Len(S.layers))],
                 "true", <<>>)
    ELSE Outcome(S, "false", <<>>)

MoveLayerUp(S, layerId) ==
    IF FindThrows(S.layers, layerId) THEN Outcome(S, "TypeError", <<>>)
    ELSE LET currentIndex == FindIndex(S.layers, layerId) IN
    IF currentIndex > 1
    THEN Outcome([S EXCEPT !.layers[currentIndex - 1] = S.layers[currentIndex],
                           !.layers[currentIndex] = S.layers[currentIndex - 1]],
                 "true", <<>>)
    ELSE Outcome(S, "false", <<>>)

\* moveLayerDown with the guard currentIndex < layers.length - 2.
MoveLayerDownGuardOffByOne(S, layerId) ==
    IF FindThrows(S.layers, layerId) THEN Outcome(S, "TypeError", <<>>)
    ELSE LET currentIndex == FindIndex(S.layers, layerId) IN
    IF currentIndex < Len(S.layers) - 1
    THEN IF currentIndex = 0
         THEN Outcome([S EXCEPT !.layers[1] = S.minus1, !.minus1 = S.layers[1]], "true", <<>>)
         ELSE Outcome([S EXCEPT !.layers[currentIndex + 1] = S.layers[currentIndex],
                                !.layers[currentIndex] = S.layers[currentIndex + 1]],
                      "true", <<>>)
    ELSE Outcome(S, "false", <<>>)

\* currentIndex is -1 in the source when no layer has the id, and then
\* -1 < layers.length - 1 holds: slot 0 and the property "-1" are exchanged.
MoveLayerDown(S, layerId) ==
    IF FindThrows(S.layers, layerId) THEN Outcome(S, "TypeError", <<>>)
    ELSE LET currentIndex == FindIndex(S.layers, layerId) IN
    IF currentIndex < Len(S.layers)
    THEN IF currentIndex = 0
         THEN Outcome([S EXCEPT !.layers[1] = S.minus1, !.minus1 = S.layers[1]], "true", <<>>)
         ELSE Outcome([S EXCEPT !.layers[currentIndex + 1] = S.layers[currentIndex],
                                !.layers[currentIndex] = S.layers[currentIndex + 1]],
                      "true", <<>>)
    ELSE Outcome(S, "false", <<>>)

ToggleLayerVisibility(S, layerId) ==
    IF FindThrows(S.layers, layerId) THEN Outcome(S, "TypeError", <<>>)
    ELSE LET i == FindIndex(S.layers, layerId) IN
    IF i # 0
    THEN Outcome([S EXCEPT !.layers[i].visible = ~@], Bool(~S.layers[i].visible), <<>>)
    ELSE Outcome(S, "null", <<>>)

GetAllObjects(S) ==
    IF Holes(S.layers) # {} THEN Outcome(S, "TypeError", <<>>)
    ELSE Outcome(S, "list", Flatten([i \in 1 .. Len(S.layers) |-> S.layers[i].objects]))

GetVisibleObjects(S) ==
    IF Holes(S.layers) # {} THEN Outcome(S, "TypeError", <<>>)
    ELSE Outcome(S, "list",
                 Flatten([i \in 1 .. Len(S.layers) |->
                             IF S.layers[i].visible THEN S.layers[i].objects ELSE <<>>]))

\* ================================================================ StateManager
\* StateManager (src/js/state.js).  A JavaScript value is a record of its
\* kind k and its content v: the number of a "number", the text of a
\* "string", the truth value of a "boolean", the sequence of elements of an
\* "array", the function from keys to values of an "object".
JsUndefined == [k |-> "undefined", v |-> 0]

JsNull == [k |-> "null", v |-> 0]

JsNaN == [k |-> "NaN", v |-> 0]

JsNumber(n) == [k |-> "number", v |-> n]

JsString(s) == [k |-> "string", v |-> s]

JsBoolean(b) == [k |-> "boolean", v |-> b]

JsArray(s) == [k |-> "array", v |-> s]

JsObject(f) == [k |-> "object", v |-> f]

\* history.maxHistorySize of the default tree.
DefaultMaxHistorySize == 50

\* new Date().toISOString() at the time of the call.
Now == JsString("now")

GetDefaultState ==
    JsObject([
        scene |-> JsObject([
            backgroundColor |-> JsString("#808080"),
            currentCameraAngle |-> JsNumber(0),
            cameraPosition |-> JsObject([x |-> JsNumber(20), y |-> JsNumber(20), z |-> JsNumber(20)]),
            gridVisible |-> JsBoolean(TRUE),
            axesVisible |-> JsBoolean(TRUE)]),
        objects |-> JsObject([
            selectedObjectId |-> JsNull,
            lastCreatedObjectType |-> JsNull,
            objectCount |-> JsNumber(0),
            totalObjectsCreated |-> JsNumber(0)]),
        layers |-> JsObject([
            currentLayerId |-> JsNumber(1),
            layerCount |-> JsNumber(1),
            lastActiveLayer |-> JsNumber(1)]),
        ui |-> JsObject([
            sidebarVisible |-> JsBoolean(TRUE),
            propertiesPanelVisible |-> JsBoolean(FALSE),
            layersPanelExpanded |-> JsBoolean(TRUE),
            objectsPanelExpanded |-> JsBoolean(TRUE),
            cameraPanelExpanded |-> JsBoolean(TRUE),
            scenePanelExpanded |-> JsBoolean(TRUE),
            activeTab |-> JsString("objects")]),
        tools |-> JsObject([
            currentTool |-> JsString("select"),
            lastUsedTool |-> JsString("select"),
            dragModeActive |-> JsBoolean(FALSE),
            snapToGrid |-> JsBoolean(TRUE),
            gridSize |-> JsNumber(1)]),
        preferences |-> JsObject([
            theme |-> JsString("dark"),
            language |-> JsString("en"),
            showTutorial |-> JsBoolean(TRUE),
            autoSave |-> JsBoolean(FALSE),
            saveInterval |-> JsNumber(300),
            showGrid |-> JsBoolean(TRUE),
            showAxes |-> JsBoolean(TRUE),
            defaultObjectColor |-> JsString("#ffffff")]),
        session |-> JsObject([
            lastSaveTime |-> JsNull,
            sessionStartTime |-> Now,
            unsavedChanges |-> JsBoolean(FALSE),
            projectName |-> JsString("Untitled Project"),
            projectDescription |-> JsString("")]),
        recentFiles |-> JsObject([
            files |-> JsArray(<<>>),
            maxRecentFiles |-> JsNumber(5)]),
        history |-> JsObject([
            undoStack |-> JsArray(<<>>),
            redoStack |-> JsArray(<<>>),
            maxHistorySize |-> JsNumber(DefaultMaxHistorySize)]),
        performance |-> JsObject([
            lastFrameTime |-> JsNumber(0),
            averageFPS |-> JsNumber(60),
            objectCount |-> JsNumber(0),
            polygonCount |-> JsNumber(0),
            memoryUsage |-> JsNumber(0)])])

\* obj?.[key] for a key that names a field: undefined unless obj is an object
\* with that key.
Member(obj, key) ==
    IF obj.k = "object" /\ key \in DOMAIN obj.v THEN obj.v[key] ELSE JsUndefined

\* A dotted path is the sequence of its keys (path.split('.')).
RECURSIVE Descend(_, _)
Descend(obj, keys) ==
    IF keys = <<>> THEN obj ELSE Descend(Member(obj, Head(keys)), Tail(keys))

\* getStateProperty that gives null where a segment is missing.
GetStatePropertyOrNull(tree, path) ==
    IF Descend(tree, path).k = "undefined" THEN JsNull ELSE Descend(tree, path)

GetStateProperty(tree, path) == Descend(tree, path)

Front(s) == SubSeq(s, 1, Len(s) - 1)

\* The tree with value assigned at the path, every container on the way
\* being an object.
RECURSIVE Assign(_, _, _)
Assign(obj, keys, value) ==
    IF Len(keys) = 1
    THEN JsObject((Head(keys) :> value) @@ obj.v)
    ELSE JsObject((Head(keys) :> Assign(obj.v[Head(keys)], Tail(keys), value)) @@ obj.v)

\* JSON.stringify followed by the reading of the text: NaN becomes null, a
\* key whose value is undefined is left out, an undefined array element
\* becomes null.
RECURSIVE ToJSON(_)
ToJSON(x) ==
    CASE x.k = "object" ->
           JsObject([key \in {q \in DOMAIN x.v : x.v[q].k # "undefined"} |-> ToJSON(x.v[key])])
      [] x.k = "array" -> JsArray([i \in 1 .. Len(x.v) |-> ToJSON(x.v[i])])
      [] x.k \in {"NaN", "undefined"} -> JsNull
      [] OTHER -> x

\* localStorage's item '3dEditorState': absent, the text of a document, or
\* a text JSON.parse rejects (written by something else of the same origin).
NoItem == [k |-> "absent", v |-> 0]

Unparsable == [k |-> "unparsable", v |-> 0]

Item(doc) == [k |-> "text", v |-> doc]

\* JSON.stringify(this.state): the text, named by the document it denotes.
Stringify(tree) == Item(ToJSON(tree))

\* JSON.parse of a stored text.
Parse(item) == item.v

\* loadState(): null when no item is stored, and null from the catch block
\* when reading localStorage raises (ok is FALSE) or JSON.parse rejects the text.
LoadState(item, ok) == IF ok /\ item.k = "text" THEN Parse(item) ELSE JsNull

\* The truthiness of a value (the `||` of the constructor, the `!` of the toggles).
Truthy(x) ==
    CASE x.k \in {"undefined", "null", "NaN"} -> FALSE
      [] x.k = "boolean" -> x.v
      [] x.k = "number" -> x.v # 0
      [] x.k = "string" -> x.v # ""
      [] OTHER -> TRUE

\* A constructor that falls back to the default tree only when no item is stored.
ConstructFallsBackOnAbsentOnly(item, ok) ==
    IF item = NoItem THEN GetDefaultState ELSE LoadState(item, ok)

\* constructor: this.state = this.loadState() || this.getDefaultState().
Construct(item, ok) ==
    IF Truthy(LoadState(item, ok)) THEN LoadState(item, ok) ELSE GetDefaultState

\* x + 1.
PlusOne(x) ==
    CASE x.k = "number" -> JsNumber(x.v + 1)
      [] x.k = "null" -> JsNumber(1)
      [] x.k = "boolean" -> JsNumber(IF x.v THEN 2 ELSE 1)
      [] x.k = "string" -> JsString(x.v \o "1")
      [] OTHER -> JsNaN

\* length > max, for a length that is a number.
Exceeds(length, max) ==
    CASE max.k = "number" -> length > max.v
      [] max.k = "null" -> length > 0
      [] OTHER -> FALSE

\* A running call: the tree, the stored item and the listeners as the call
\* has left them so far, the number of times it has assigned to the tree,
\* the record of its saveState and listener calls, whether an error has left
\* it, and the value it returns.
Run(tree, item, ls) ==
    [state |-> tree, storage |-> item, listeners |-> ls, writes |-> 0, log |-> <<>>,
     raised |-> FALSE, ret |-> JsUndefined]

\* A saveState call (e = "save", ok: the write went through), the removeItem
\* call of clearState (e = "remove", ok: it went through) or the call of the
\* listener of registration reg (e = "call", ok: it returned); at tells
\* which tree was serialized or passed: the one after the call's at-th
\* assignment.
Event(e, ok, reg, at) == [e |-> e, ok |-> ok, reg |-> reg, at |-> at]

\* The callbacks callers subscribe: "f" returns, "boom" raises.
Callbacks == {"f", "boom"}

Raises(callback) == callback = "boom"

\* saveState(): setItem may fail (quota, storage disabled); the failure is
\* caught.  ok tells whether the write goes through.
SaveState(X, ok) ==
    [X EXCEPT !.storage = IF ok THEN Stringify(X.state) ELSE @,
              !.log = Append(@, Event("save", ok, 0, X.writes))]

\* notifyListeners that calls the first listener only.
NotifyListenersFirstOnly(X) ==
    LET upto == IF X.listeners = <<>> THEN 0 ELSE 1
    IN  [X EXCEPT !.log = @ \o [i \in 1 .. upto |->
                                   Event("call", ~Raises(X.listeners[i].cb),
                                         X.listeners[i].reg, X.writes)],
                  !.raised = upto = 1 /\ Raises(X.listeners[1].cb)]

\* notifyListeners(): forEach in array order; an error raised by a listener
\* ends the loop and leaves the method.
\* notifyListeners that calls each listener in a try block of its own.
NotifyListenersIsolated(X) ==
    [X EXCEPT !.log = @ \o [i \in 1 .. Len(X.listeners) |->
                               Event("call", ~Raises(X.listeners[i].cb),
                                     X.listeners[i].reg, X.writes)]]

NotifyListeners(X) ==
    LET booms == {i \in 1 .. Len(X.listeners) : Raises(X.listeners[i].cb)}
        upto == IF booms = {} THEN Len(X.listeners) ELSE SetMin(booms)
    IN  [X EXCEPT !.log = @ \o [i \in 1 .. upto |->
                                   Event("call", ~Raises(X.listeners[i].cb),
                                         X.listeners[i].reg, X.writes)],
                  !.raised = booms # {}]

\* setStateProperty that makes the containers its path lacks.
RECURSIVE AssignCreating(_, _, _)
AssignCreating(obj, keys, value) ==
    LET fields == IF obj.k = "object" THEN obj.v ELSE [key \in {} |-> JsUndefined]
    IN  IF Len(keys) = 1
        THEN JsObject((Head(keys) :> value) @@ fields)
        ELSE JsObject((Head(keys) :> AssignCreating(Member(obj, Head(keys)), Tail(keys), value))
                         @@ fields)

SetStatePropertyCreating(X, path, value, ok) ==
    IF X.raised THEN X
    ELSE NotifyListeners(SaveState([X EXCEPT !.state = AssignCreating(@, path, value),
                                             !.writes = @ + 1], ok))

\* setStateProperty without this.notifyListeners().
SetStatePropertyWithoutNotify(X, path, value, ok) ==
    IF X.raised THEN X
    ELSE IF Descend(X.state, Front(path)).k # "object" THEN [X EXCEPT !.raised = TRUE]
    ELSE SaveState([X EXCEPT !.state = Assign(@, path, value), !.writes = @ + 1], ok)

\* updateState that merges the fields of a section into the section it finds.
SpreadDeep(tree, newState) ==
    JsObject([key \in DOMAIN newState.v \cup DOMAIN tree.v |->
                 IF key \notin DOMAIN newState.v THEN tree.v[key]
                 ELSE IF key \in DOMAIN tree.v /\ tree.v[key].k = "object"
                         /\ newState.v[key].k = "object"
                 THEN JsObject(newState.v[key].v @@ tree.v[key].v)
                 ELSE newState.v[key]])

\* setStateProperty: a TypeError when the container of the last key is
\* missing (no path of the callers leads into an array).  A call made after
\* an error has left the caller's method does not happen.
SetStateProperty(X, path, value, ok) ==
    IF X.raised THEN X
    ELSE IF Descend(X.state, Front(path)).k # "object" THEN [X EXCEPT !.raised = TRUE]
    ELSE NotifyListeners(SaveState([X EXCEPT !.state = Assign(@, path, value), !.writes = @ + 1], ok))

\* { ...this.state, ...newState }
Spread(tree, newState) ==
    JsObject(IF tree.k = "object" THEN newState.v @@ tree.v ELSE newState.v)

UpdateState(X, newState, ok) ==
    IF X.raised THEN X
    ELSE NotifyListeners(SaveState([X EXCEPT !.state = Spread(@, newState), !.writes = @ + 1], ok))

ResetState(X, ok) ==
    NotifyListeners(SaveState([X EXCEPT !.state = GetDefaultState, !.writes = @ + 1], ok))

\* clearState(): removeItem, the assignment and notifyListeners stand in one
\* try block.  When localStorage raises (ok is FALSE) the catch block is all
\* that runs; the block also catches what a listener raises.
ClearState(X, ok) ==
    IF ~ok THEN [X EXCEPT !.log = Append(@, Event("remove", FALSE, 0, X.writes))]
    ELSE [NotifyListeners([X EXCEPT !.storage = NoItem,
                                    !.log = Append(@, Event("remove", TRUE, 0, X.writes)),
                                    !.state = GetDefaultState,
                                    !.writes = @ + 1])
            EXCEPT !.raised = FALSE]

\* subscribe(callback): the registration is numbered reg here to tell two
\* registrations of one callback apart.
Subscribe(ls, callback, reg) == Append(ls, [cb |-> callback, reg |-> reg])

\* The function subscribe returned for the callback.
Unsubscribe(ls, callback) == SelectSeq(ls, LAMBDA listener : listener.cb # callback)

SetCameraAngle(X, angle, ok) ==
    SetStateProperty(X, <<"scene", "currentCameraAngle">>, angle, ok)

SetCameraPosition(X, position, ok) ==
    SetStateProperty(X, <<"scene", "cameraPosition">>, position, ok)

SetBackgroundColor(X, color, ok) ==
    SetStateProperty(X, <<"scene", "backgroundColor">>, color, ok)

SetSelectedObjectId(X, id, ok) ==
    SetStateProperty(X, <<"objects", "selectedObjectId">>, id, ok)

IncrementObjectCount(X, ok) ==
    LET currentCount == GetStateProperty(X.state, <<"objects", "objectCount">>)
        X1 == SetStateProperty(X, <<"objects", "objectCount">>, PlusOne(currentCount), ok)
    IN  SetStateProperty(X1, <<"objects", "totalObjectsCreated">>,
                         PlusOne(GetStateProperty(X1.state, <<"objects", "totalObjectsCreated">>)),
                         ok)

SetCurrentLayerId(X, id, ok) ==
    SetStateProperty(SetStateProperty(X, <<"layers", "currentLayerId">>, id, ok),
                     <<"layers", "lastActiveLayer">>, id, ok)

IncrementLayerCount(X, ok) ==
    LET currentCount == GetStateProperty(X.state, <<"layers", "layerCount">>)
    IN  SetStateProperty(X, <<"layers", "layerCount">>, PlusOne(currentCount), ok)

TogglePanelVisibility(X, panelName, ok) ==
    LET currentVisibility == GetStateProperty(X.state, <<"ui", panelName \o "Visible">>)
    IN  SetStateProperty(X, <<"ui", panelName \o "Visible">>,
                         JsBoolean(~Truthy(currentVisibility)), ok)

SetActiveTab(X, tabName, ok) == SetStateProperty(X, <<"ui", "activeTab">>, tabName, ok)

SetCurrentTool(X, toolName, ok) ==
    SetStateProperty(SetStateProperty(X, <<"tools", "currentTool">>, toolName, ok),
                     <<"tools", "lastUsedTool">>, toolName, ok)

ToggleSnapToGrid(X, ok) ==
    LET currentSnap == GetStateProperty(X.state, <<"tools", "snapToGrid">>)
    IN  SetStateProperty(X, <<"tools", "snapToGrid">>, JsBoolean(~Truthy(currentSnap)), ok)

\* The history object with its two stacks replaced (they are arrays).
WithStacks(history, undoStack, redoStack) ==
    JsObject(("undoStack" :> JsArray(undoStack) @@ "redoStack" :> JsArray(redoStack))
               @@ history.v)

\* history.undoStack / history.redoStack can be used as arrays.
HasStacks(history) ==
    /\ history.k = "object"
    /\ Member(history, "undoStack").k = "array"
    /\ Member(history, "redoStack").k = "array"

\* addToHistory with `undoStack.pop()` written for `undoStack.shift()`.
AddToHistoryEvictsNewest(X, action, ok) ==
    LET history == GetStateProperty(X.state, <<"history">>) IN
    IF ~HasStacks(history) THEN [X EXCEPT !.raised = TRUE]
    ELSE LET pushed == Append(history.v.undoStack.v, action)
             undoStack == IF Exceeds(Len(pushed), Member(history, "maxHistorySize"))
                          THEN Front(pushed) ELSE pushed
             changed == WithStacks(history, undoStack, <<>>)
         IN  UpdateState([X EXCEPT !.state = Assign(@, <<"history">>, changed), !.writes = @ + 1],
                         JsObject([history |-> changed]), ok)

\* addToHistory without `history.redoStack = []`.
AddToHistoryKeepsRedo(X, action, ok) ==
    LET history == GetStateProperty(X.state, <<"history">>) IN
    IF ~HasStacks(history) THEN [X EXCEPT !.raised = TRUE]
    ELSE LET pushed == Append(history.v.undoStack.v, action)
             undoStack == IF Exceeds(Len(pushed), Member(history, "maxHistorySize"))
                          THEN Tail(pushed) ELSE pushed
             changed == WithStacks(history, undoStack, history.v.redoStack.v)
         IN  UpdateState([X EXCEPT !.state = Assign(@, <<"history">>, changed), !.writes = @ + 1],
                         JsObject([history |-> changed]), ok)

\* addToHistory: the history object of the tree is changed in place and
\* then handed to updateState.
\* addToHistory without the shift() of a full undoStack.
AddToHistoryWithoutShift(X, action, ok) ==
    LET history == GetStateProperty(X.state, <<"history">>) IN
    IF ~HasStacks(history) THEN [X EXCEPT !.raised = TRUE]
    ELSE LET changed == WithStacks(history, Append(history.v.undoStack.v, action), <<>>)
         IN  UpdateState([X EXCEPT !.state = Assign(@, <<"history">>, changed), !.writes = @ + 1],
                         JsObject([history |-> changed]), ok)

AddToHistory(X, action, ok) ==
    LET history == GetStateProperty(X.state, <<"history">>) IN
    IF ~HasStacks(history) THEN [X EXCEPT !.raised = TRUE]
    ELSE LET pushed == Append(history.v.undoStack.v, action)
             undoStack == IF Exceeds(Len(pushed), Member(history, "maxHistorySize"))
                          THEN Tail(pushed) ELSE pushed
             changed == WithStacks(history, undoStack, <<>>)
         IN  UpdateState([X EXCEPT !.state = Assign(@, <<"history">>, changed), !.writes = @ + 1],
                         JsObject([history |-> changed]), ok)

\* undo that drops the action instead of pushing it onto redoStack.
UndoDropsAction(X, ok) ==
    LET history == GetStateProperty(X.state, <<"history">>) IN
    IF ~HasStacks(history) THEN [X EXCEPT !.raised = TRUE]
    ELSE IF Len(history.v.undoStack.v) > 0
    THEN LET undoStack == history.v.undoStack.v
             action == undoStack[Len(undoStack)]
             changed == WithStacks(history, Front(undoStack), history.v.redoStack.v)
         IN  [UpdateState([X EXCEPT !.state = Assign(@, <<"history">>, changed), !.writes = @ + 1],
                          JsObject([history |-> changed]), ok)
                EXCEPT !.ret = action]
    ELSE [X EXCEPT !.ret = JsNull]

\* undo that goes through updateState also when undoStack is empty.
UndoAlwaysUpdates(X, ok) ==
    LET history == GetStateProperty(X.state, <<"history">>) IN
    IF ~HasStacks(history) THEN [X EXCEPT !.raised = TRUE]
    ELSE IF Len(history.v.undoStack.v) > 0
    THEN LET undoStack == history.v.undoStack.v
             action == undoStack[Len(undoStack)]
             changed == WithStacks(history, Front(undoStack),
                                   Append(history.v.redoStack.v, action))
         IN  [UpdateState([X EXCEPT !.state = Assign(@, <<"history">>, changed), !.writes = @ + 1],
                          JsObject([history |-> changed]), ok)
                EXCEPT !.ret = action]
    ELSE [UpdateState(X, JsObject([history |-> history]), ok) EXCEPT !.ret = JsNull]

Undo(X, ok) ==
    LET history == GetStateProperty(X.state, <<"history">>) IN
    IF ~HasStacks(history) THEN [X EXCEPT !.raised = TRUE]
    ELSE IF Len(history.v.undoStack.v) > 0
    THEN LET undoStack == history.v.undoStack.v
             action == undoStack[Len(undoStack)]
             changed == WithStacks(history, Front(undoStack),
                                   Append(history.v.redoStack.v, action))
         IN  [UpdateState([X EXCEPT !.state = Assign(@, <<"history">>, changed), !.writes = @ + 1],
                          JsObject([history |-> changed]), ok)
                EXCEPT !.ret = action]
    ELSE [X EXCEPT !.ret = JsNull]

\* redo that takes the action undone first (shift in place of pop).
RedoTakesOldest(X, ok) ==
    LET history == GetStateProperty(X.state, <<"history">>) IN
    IF ~HasStacks(history) THEN [X EXCEPT !.raised = TRUE]
    ELSE IF Len(history.v.redoStack.v) > 0
    THEN LET redoStack == history.v.redoStack.v
             action == redoStack[1]
             changed == WithStacks(history, Append(history.v.undoStack.v, action),
                                   Tail(redoStack))
         IN  [UpdateState([X EXCEPT !.state = Assign(@, <<"history">>, changed), !.writes = @ + 1],
                          JsObject([history |-> changed]), ok)
                EXCEPT !.ret = action]
    ELSE [X EXCEPT !.ret = JsNull]

Redo(X, ok) ==
    LET history == GetStateProperty(X.state, <<"history">>) IN
    IF ~HasStacks(history) THEN [X EXCEPT !.raised = TRUE]
    ELSE IF Len(history.v.redoStack.v) > 0
    THEN LET redoStack == history.v.redoStack.v
             action == redoStack[Len(redoStack)]
             changed == WithStacks(history, Append(history.v.undoStack.v, action),
                                   Front(redoStack))
         IN  [UpdateState([X EXCEPT !.state = Assign(@, <<"history">>, changed), !.writes = @ + 1],
                          JsObject([history |-> changed]), ok)
                EXCEPT !.ret = action]
    ELSE [X EXCEPT !.ret = JsNull]

\* ---------------------------------------------------------------- initial state
Init ==
    /\ layers = <<NewLayer(1, DefaultName(1))>>
    /\ layersMinus1 = Undefined
    /\ currentLayerId = 1
    /\ nextLayerId = 2
    /\ usedIds = {1}
    /\ orphans = {}
    /\ last = [op |-> "constructor", id |-> 0, obj |-> 0, cur |-> 1, ret |-> "none", val |-> <<>>]
    /\ storage = NoItem
    /\ state = Construct(NoItem, TRUE)
    /\ listeners = <<>>
    /\ subscribed = <<>>
    /\ done = [op |-> "constructor", arg |-> 0, had |-> <<0, 0>>, ret |-> JsUndefined,
               raised |-> FALSE, writes |-> 0, log |-> <<>>]
    /\ objectList = <<>>
    /\ shown = {}

LayerIds(ls) == {ls[i].id : i \in 1 .. Len(ls)} \ {0}

Range(s) == {s[i] : i \in 1 .. Len(s)}

\* The handles some layer of the array holds.
Held(ls) == UNION {Range(ls[i].objects) : i \in 1 .. Len(ls)}

\* The handles that go with the layer a successful removeLayer(id) splices
\* out: those it holds that no other layer holds.
LostWith(ls, id) ==
    UNION {Range(ls[i].objects) : i \in HasId(ls, id)}
      \ UNION {Range(ls[i].objects) : i \in (1 .. Len(ls)) \ HasId(ls, id)}

\* One call of a method: the store becomes the outcome's store.  usedIds
\* collects every id a layer has had; orphans collects the handles lost with
\* a removed layer until a call that inserts a handle (addObjectToCurrentLayer,
\* moveObjectToLayer) puts them into a layer again; last keeps the call (its
\* name, its id argument, the current layer it started from) and its result.
LayerEffect(op, id, obj, out) ==
    /\ orphans' = IF op = "removeLayer" /\ out.ret = "true"
                  THEN orphans \cup LostWith(layers, id)
                  ELSE IF op \in {"addObjectToCurrentLayer", "moveObjectToLayer"}
                          /\ out.ret = "true"
                  THEN orphans \ {obj}
                  ELSE orphans
    /\ layers' = out.store.layers
    /\ layersMinus1' = out.store.minus1
    /\ currentLayerId' = out.store.currentLayerId
    /\ nextLayerId' = out.store.nextLayerId
    /\ usedIds' = usedIds \cup LayerIds(out.store.layers)
    /\ last' = [op |-> op, id |-> id, obj |-> obj, cur |-> currentLayerId, ret |-> out.ret,
                val |-> out.val]

Call(op, id, obj, out) ==
    /\ LayerEffect(op, id, obj, out)
    /\ UNCHANGED <<appVars, sceneVars>>

CallAddLayer(name) == Call("addLayer", 0, 0, AddLayer(Here, name))

CallRemoveLayer(id) == Call("removeLayer", id, 0, RemoveLayer(Here, id))

CallRenameLayer(id, name) == Call("renameLayer", id, 0, RenameLayer(Here, id, name))

CallSetCurrentLayer(id) == Call("setCurrentLayer", id, 0, SetCurrentLayer(Here, id))

CallAddObjectToCurrentLayer(h) ==
    Call("addObjectToCurrentLayer", 0, h, AddObjectToCurrentLayer(Here, h))

CallRemoveObjectFromLayer(h) ==
    Call("removeObjectFromLayer", 0, h, RemoveObjectFromLayer(Here, h))

CallMoveObjectToLayer(h, id) == Call("moveObjectToLayer", id, h, MoveObjectToLayer(Here, h, id))

CallReorderLayers(newOrder) == Call("reorderLayers", 0, 0, ReorderLayers(Here, newOrder))

CallMoveLayerUp(id) == Call("moveLayerUp", id, 0, MoveLayerUp(Here, id))

CallMoveLayerDown(id) == Call("moveLayerDown", id, 0, MoveLayerDown(Here, id))

CallToggleLayerVisibility(id) ==
    Call("toggleLayerVisibility", id, 0, ToggleLayerVisibility(Here, id))

CallGetAllObjects == Call("getAllObjects", 0, 0, GetAllObjects(Here))

CallGetVisibleObjects == Call("getVisibleObjects", 0, 0, GetVisibleObjects(Here))

ObjectCount(ls) == Len(Flatten([i \in 1 .. Len(ls) |-> ls[i].objects]))

\* Arrays of ids, one to MaxLayerId long: permutations of the current ids
\* and arrays with a missing, extra or repeated id.
IdArrays == UNION {[1 .. n -> ArgIds] : n \in 1 .. MaxLayerId}

Injective(f) == \A i, j \in DOMAIN f : f[i] = f[j] => i = j

\* The "prefix" writing is tried on the arrays without a repeated id.
NewOrders ==
    UNION {{[i \in 1 .. Len(ids) |-> Token(k, ids[i])] :
               k \in {t \in TokenKinds : t = "id" \/ Injective(ids)}} : ids \in IdArrays}

DoAddLayer ==
    /\ nextLayerId <= MaxLayerId
    /\ CallAddLayer(CustomName)

DoRemoveLayer == \E id \in ArgIds : CallRemoveLayer(id)

DoRenameLayer == \E id \in ArgIds : CallRenameLayer(id, CustomName)

DoSetCurrentLayer == \E id \in ArgIds : CallSetCurrentLayer(id)

DoAddObjectToCurrentLayer ==
    /\ ObjectCount(layers) < MaxObjects
    /\ \E h \in Handles : CallAddObjectToCurrentLayer(h)

DoRemoveObjectFromLayer == \E h \in Handles : CallRemoveObjectFromLayer(h)

DoMoveObjectToLayer == \E h \in Handles, id \in ArgIds : CallMoveObjectToLayer(h, id)

DoReorderLayers == \E newOrder \in NewOrders : CallReorderLayers(newOrder)

DoMoveLayerUp == \E id \in ArgIds : CallMoveLayerUp(id)

DoMoveLayerDown == \E id \in ArgIds : CallMoveLayerDown(id)

DoToggleLayerVisibility == \E id \in ArgIds : CallToggleLayerVisibility(id)

DoGetAllObjects == CallGetAllObjects

DoGetVisibleObjects == CallGetVisibleObjects

Next ==
    \/ DoAddLayer
    \/ DoRemoveLayer
    \/ DoRenameLayer
    \/ DoSetCurrentLayer
    \/ DoAddObjectToCurrentLayer
    \/ DoRemoveObjectFromLayer
    \/ DoMoveObjectToLayer
    \/ DoReorderLayers
    \/ DoMoveLayerUp
    \/ DoMoveLayerDown
    \/ DoToggleLayerVisibility
    \/ DoGetAllObjects
    \/ DoGetVisibleObjects

Spec == Init /\ [][Next]_vars

\* The operations on the layers themselves (no object handles, no array
\* argument): the same store, explored with these calls only.
NextLayers ==
    \/ DoAddLayer
    \/ DoRemoveLayer
    \/ DoRenameLayer
    \/ DoSetCurrentLayer
    \/ DoMoveLayerUp
    \/ DoMoveLayerDown
    \/ DoToggleLayerVisibility

SpecLayers == Init /\ [][NextLayers]_vars

\* The calls about object handles, with two handles and up to MaxHeld
\* insertions standing in the layers at once (a handle may be inserted while
\* a layer already holds it), beside the calls that add, remove and hide
\* layers.
DoAddObjectAgain ==
    /\ ObjectCount(layers) < MaxHeld
    /\ \E h \in ObjHandles : CallAddObjectToCurrentLayer(h)

DoRemoveObjectOfTwo == \E h \in ObjHandles : CallRemoveObjectFromLayer(h)

DoMoveObjectOfTwo ==
    \E h \in ObjHandles, id \in ArgIds :
        /\ ObjectCount(layers) < MaxHeld \/ h \in Held(layers)
        /\ CallMoveObjectToLayer(h, id)

\* Calls with one of the three meshes.
DoAddMesh ==
    /\ ObjectCount(layers) < MaxHeld
    /\ \E h \in Meshes : CallAddObjectToCurrentLayer(h)

DoRemoveMesh == \E h \in Meshes : CallRemoveObjectFromLayer(h)

\* Layers are added and chosen, meshes added (also one a layer holds
\* already) and removed.
NextMeshes ==
    \/ DoAddLayer
    \/ DoSetCurrentLayer
    \/ DoAddMesh
    \/ DoRemoveMesh

SpecMeshes == Init /\ [][NextMeshes]_vars

\* Calls with ids of layers of the store, and addObjectToCurrentLayer only
\* with a mesh that no layer holds.
DoAddNewMesh ==
    /\ ObjectCount(layers) < MaxHeld
    /\ \E h \in Meshes \ Held(layers) : CallAddObjectToCurrentLayer(h)

DoMoveMeshToExisting ==
    \E h \in Meshes, id \in LayerIds(layers) :
        /\ ObjectCount(layers) < MaxHeld \/ Holders(layers, h) # {}
        /\ CallMoveObjectToLayer(h, id)

DoRemoveExistingLayer == \E id \in LayerIds(layers) : CallRemoveLayer(id)

\* newOrder lists every current layer id exactly once, each written as an id.
IsPermutationOfIds(newOrder, ls) ==
    /\ Len(newOrder) = Len(ls)
    /\ \A i \in 1 .. Len(newOrder) : newOrder[i].kind = "id"
    /\ \A i \in 1 .. Len(ls) :
          Cardinality({j \in 1 .. Len(newOrder) : newOrder[j].n = ls[i].id}) = 1

DoReorderExisting ==
    \E newOrder \in NewOrders :
        /\ IsPermutationOfIds(newOrder, layers)
        /\ CallReorderLayers(newOrder)

DoMoveExistingLayerUp == \E id \in LayerIds(layers) : CallMoveLayerUp(id)

DoMoveExistingLayerDown == \E id \in LayerIds(layers) : CallMoveLayerDown(id)

NextExistingIds ==
    \/ DoAddLayer
    \/ DoRemoveExistingLayer
    \/ DoReorderExisting
    \/ DoMoveExistingLayerUp
    \/ DoMoveExistingLayerDown
    \/ DoAddNewMesh
    \/ DoRemoveMesh
    \/ DoMoveMeshToExisting

SpecExistingIds == Init /\ [][NextExistingIds]_vars

NextObjects ==
    \/ DoAddLayer
    \/ DoRemoveLayer
    \/ DoToggleLayerVisibility
    \/ DoAddObjectAgain
    \/ DoRemoveObjectOfTwo
    \/ DoMoveObjectOfTwo
    \/ DoGetAllObjects
    \/ DoGetVisibleObjects

SpecObjects == Init /\ [][NextObjects]_vars

\* ---------------------------------------------------------------- StateManager calls
\* The action records callers hand to addToHistory (app.js:172, 195).
Actions ==
    {JsObject([action |-> JsString("add_object"), type |-> JsString("cube")]),
     JsObject([action |-> JsString("clear_scene")])}

\* The n-th action of a run that numbers its actions.
NumberedAction(n) == JsObject([action |-> JsString("move_object"), n |-> JsNumber(n)])

\* Whether the call of localStorage goes through.
Oks == BOOLEAN

ThisRun == Run(state, storage, listeners)

UndoStack(tree) == tree.v.history.v.undoStack.v

RedoStack(tree) == tree.v.history.v.redoStack.v

\* The lengths of undoStack and redoStack, 0 where the tree has no such array.
StackLengths(tree) ==
    IF HasStacks(GetStateProperty(tree, <<"history">>))
    THEN <<Len(UndoStack(tree)), Len(RedoStack(tree))>>
    ELSE <<0, 0>>

\* What done holds after a call that neither saves nor notifies.
Quiet(op, arg) ==
    [op |-> op, arg |-> arg, had |-> StackLengths(state), ret |-> JsUndefined,
     raised |-> FALSE, writes |-> 0, log |-> <<>>]

\* One call of a method of the state manager: the tree, the stored item and
\* the listeners become those the call leaves; done keeps the call, the
\* lengths the two stacks had before it, what it returned, whether it raised,
\* how many times it changed the tree, and its saveState and listener calls.
AppEffect(op, arg, X) ==
    /\ state' = X.state
    /\ storage' = X.storage
    /\ listeners' = X.listeners
    /\ done' = [op |-> op, arg |-> arg, had |-> StackLengths(state), ret |-> X.ret,
                raised |-> X.raised, writes |-> X.writes, log |-> X.log]

AppCall(op, arg, X) ==
    /\ AppEffect(op, arg, X)
    /\ UNCHANGED <<layerVars, sceneVars, subscribed>>

\* A page load: the module constructs the state manager from what is stored.
\* done.arg is 1 when reading localStorage raised, 0 when it went through.
DoConstruct ==
    \E ok \in Oks :
        /\ state' = Construct(storage, ok)
        /\ listeners' = <<>>
        /\ subscribed' = <<>>
        /\ done' = Quiet("constructor", IF ok THEN 0 ELSE 1)
        /\ UNCHANGED <<layerVars, sceneVars, storage>>

\* Something else of the origin leaves a text in the item that is no JSON.
DoCorruptItem ==
    /\ storage' = Unparsable
    /\ done' = Quiet("corruptItem", 0)
    /\ UNCHANGED <<layerVars, sceneVars, state, listeners, subscribed>>

SubscribeCall(callback) ==
    /\ listeners' = Subscribe(listeners, callback, Len(subscribed) + 1)
    /\ subscribed' = Append(subscribed, callback)
    /\ done' = Quiet("subscribe", Len(subscribed) + 1)
    /\ UNCHANGED <<layerVars, sceneVars, state, storage>>

DoSubscribe ==
    /\ Len(subscribed) < MaxRegs
    /\ \E callback \in Callbacks : SubscribeCall(callback)

\* The only subscribe call of a page: a listener that returns.
DoSubscribeFirst ==
    /\ subscribed = <<>>
    /\ SubscribeCall("f")

\* The unsubscribe function of registration reg is called.
DoUnsubscribe ==
    \E reg \in 1 .. Len(subscribed) :
        /\ listeners' = Unsubscribe(listeners, subscribed[reg])
        /\ done' = Quiet("unsubscribe", reg)
        /\ UNCHANGED <<layerVars, sceneVars, state, storage, subscribed>>

DoSetStateProperty ==
    AppCall("setStateProperty", 0,
            SetStateProperty(ThisRun, <<"scene", "currentCameraAngle">>, JsNumber(90), TRUE))

\* updateState as SceneManager calls it (part_001:98): the scene section
\* with one field replaced.
DoUpdateState ==
    AppCall("updateState", 0,
            UpdateState(ThisRun,
                        JsObject([scene |-> JsObject(("gridVisible" :> JsBoolean(FALSE))
                                                       @@ GetStateProperty(state, <<"scene">>).v)]),
                        TRUE))

DoResetState == AppCall("resetState", 0, ResetState(ThisRun, TRUE))

\* The paths callers read: fields that exist, a field no section has until
\* it is set, a section that does not exist, a field of null.
ReadPaths ==
    <<<<"scene", "currentCameraAngle">>, <<"scene", "currentTheme">>, <<"nope", "x">>,
      <<"objects", "selectedObjectId", "x">>, <<"scene", "cameraPosition", "x">>,
      <<"history">>, <<"notes">>>>

DoGetStateProperty ==
    \E i \in 1 .. Len(ReadPaths) :
        /\ done' = [Quiet("getStateProperty", i) EXCEPT !.ret = GetStateProperty(state, ReadPaths[i])]
        /\ UNCHANGED <<layerVars, sceneVars, state, storage, listeners, subscribed>>

\* The paths callers write and the values they write there.
WritePaths ==
    <<<<"scene", "currentCameraAngle">>, <<"scene", "currentTheme">>,
      <<"scene", "cameraPosition", "x">>, <<"notes">>, <<"nope", "deep", "x">>>>

WriteValues == <<JsNumber(90), JsUndefined, JsObject([x |-> JsNumber(0)])>>

\* The calls setStateProperty(path, value), numbered.
Writes ==
    [i \in 1 .. Len(WritePaths) * Len(WriteValues) |->
        [path |-> WritePaths[((i - 1) \div Len(WriteValues)) + 1],
         value |-> WriteValues[((i - 1) % Len(WriteValues)) + 1]]]

DoSetStatePropertyAt ==
    \E i \in 1 .. Len(Writes) :
        AppCall("setStateProperty", i,
                SetStateProperty(ThisRun, Writes[i].path, Writes[i].value, TRUE))

\* The partial trees callers hand to updateState: a section with one field,
\* and a section set to null together with a section the tree does not have.
Partials ==
    <<JsObject([scene |-> JsObject([backgroundColor |-> JsString("#000000")])]),
      JsObject([tools |-> JsNull, notes |-> JsString("n")])>>

DoUpdateStateWith ==
    \E i \in 1 .. Len(Partials) :
        AppCall("updateState", i, UpdateState(ThisRun, Partials[i], TRUE))

\* The same three calls with a storage write that may fail.
TrySetStateProperty ==
    \E ok \in Oks :
        AppCall("setStateProperty", 0,
                SetStateProperty(ThisRun, <<"scene", "currentCameraAngle">>, JsNumber(90), ok))

TryUpdateState ==
    \E ok \in Oks :
        AppCall("updateState", 0,
                UpdateState(ThisRun,
                            JsObject([scene |-> JsObject(("gridVisible" :> JsBoolean(FALSE))
                                                           @@ GetStateProperty(state, <<"scene">>).v)]),
                            ok))

TryResetState == \E ok \in Oks : AppCall("resetState", 0, ResetState(ThisRun, ok))

DoClearState == \E ok \in Oks : AppCall("clearState", 0, ClearState(ThisRun, ok))

DoSetCameraAngle ==
    AppCall("setCameraAngle", 0, SetCameraAngle(ThisRun, JsNumber(90), TRUE))

DoSetCameraPosition ==
    AppCall("setCameraPosition", 0,
            SetCameraPosition(ThisRun,
                              JsObject([x |-> JsNumber(0), y |-> JsNumber(20), z |-> JsNumber(0)]),
                              TRUE))

DoSetBackgroundColor ==
    AppCall("setBackgroundColor", 0, SetBackgroundColor(ThisRun, JsString("#000000"), TRUE))

\* The id the dropdown handler passes: parseInt of an option's value, NaN
\* for the option "None" whose value is the empty string (app.js:255, 585).
DoSetSelectedObjectId ==
    \E id \in {JsNumber(1), JsNaN} :
        AppCall("setSelectedObjectId", 0, SetSelectedObjectId(ThisRun, id, TRUE))

DoIncrementObjectCount ==
    /\ GetStateProperty(state, <<"objects", "objectCount">>).k = "number"
    /\ GetStateProperty(state, <<"objects", "objectCount">>).v < MaxCount
    /\ AppCall("incrementObjectCount", 0, IncrementObjectCount(ThisRun, TRUE))

DoSetCurrentLayerId ==
    AppCall("setCurrentLayerId", 0, SetCurrentLayerId(ThisRun, JsNumber(2), TRUE))

DoIncrementLayerCount ==
    /\ GetStateProperty(state, <<"layers", "layerCount">>).k = "number"
    /\ GetStateProperty(state, <<"layers", "layerCount">>).v <= MaxCount
    /\ AppCall("incrementLayerCount", 0, IncrementLayerCount(ThisRun, TRUE))

DoTogglePanelVisibility ==
    AppCall("togglePanelVisibility", 0, TogglePanelVisibility(ThisRun, "sidebar", TRUE))

DoSetActiveTab == AppCall("setActiveTab", 0, SetActiveTab(ThisRun, JsString("layers"), TRUE))

DoSetCurrentTool == AppCall("setCurrentTool", 0, SetCurrentTool(ThisRun, JsString("move"), TRUE))

DoToggleSnapToGrid == AppCall("toggleSnapToGrid", 0, ToggleSnapToGrid(ThisRun, TRUE))

\* The history calls, the storage write of each going through or not as oks allows.
AddToHistoryCalls(oks) ==
    /\ Len(UndoStack(state)) + Len(RedoStack(state)) < MaxStack
    /\ \E action \in Actions, ok \in oks :
          AppCall("addToHistory", 0, AddToHistory(ThisRun, action, ok))

UndoCalls(oks) == \E ok \in oks : AppCall("undo", 0, Undo(ThisRun, ok))

RedoCalls(oks) == \E ok \in oks : AppCall("redo", 0, Redo(ThisRun, ok))

DoAddToHistory == AddToHistoryCalls(Oks)

DoUndo == UndoCalls(Oks)

DoRedo == RedoCalls(Oks)

DoAddToHistorySaved == AddToHistoryCalls({TRUE})

DoUndoSaved == UndoCalls({TRUE})

DoRedoSaved == RedoCalls({TRUE})

\* The number of the action on top of undoStack in a run of numbered actions.
Added(tree) ==
    IF UndoStack(tree) = <<>> THEN 0 ELSE UndoStack(tree)[Len(UndoStack(tree))].v.n.v

\* addToHistory with the next numbered action.
DoAddNumbered ==
    /\ Added(state) < MaxAdds
    /\ \E ok \in Oks :
          AppCall("addToHistory", Added(state) + 1,
                  AddToHistory(ThisRun, NumberedAction(Added(state) + 1), ok))

\* ---------------------------------------------------------------- SceneManager
\* SceneManager (src/unnamed/part_001).  Colours are '#rrggbb' strings in the
\* tree and numbers in the scene manager.
StringToHex(color) ==
    CASE color = "#808080" -> 8421504
      [] color = "#222222" -> 2236962
      [] OTHER -> 0

HexToString(hex) ==
    CASE hex = 8421504 -> "#808080"
      [] hex = 2236962 -> "#222222"
      [] OTHER -> "#000000"

\* The preset themes: a colour number, or the colours of a gradient.
Themes ==
    [dark |-> [solid |-> TRUE, hex |-> 2236962],
     sunset |-> [solid |-> FALSE, colors |-> <<"#ff7e5f", "#feb47b">>]]

\* SceneManager.setBackgroundColor(color), color a '#rrggbb' string or a number.
SceneManagerSetBackgroundColor(X, color, ok) ==
    LET colorHex == IF color.k = "string" THEN StringToHex(color.v) ELSE color.v
        X1 == SetBackgroundColor(X, JsString(HexToString(colorHex)), ok)
    IN  IF X1.raised THEN X1
        ELSE AddToHistory(X1,
                          JsObject([action |-> JsString("change_background"),
                                    color |-> JsString(HexToString(colorHex))]),
                          ok)

\* { ...stateManager.getStateProperty('scene'), ...fields }
SceneWith(tree, fields) ==
    LET scene == GetStateProperty(tree, <<"scene">>)
    IN  JsObject([scene |-> JsObject(IF scene.k = "object" THEN fields @@ scene.v ELSE fields)])

SetGradientBackground(X, color1, color2, direction, ok) ==
    LET X1 == UpdateState(X,
                          SceneWith(X.state,
                                    [backgroundType |-> JsString("gradient"),
                                     gradientColors |-> JsArray(<<JsString(color1), JsString(color2)>>),
                                     gradientDirection |-> JsString(direction)]),
                          ok)
    IN  IF X1.raised THEN X1
        ELSE AddToHistory(X1,
                          JsObject([action |-> JsString("change_background_gradient"),
                                    color1 |-> JsString(color1), color2 |-> JsString(color2),
                                    direction |-> JsString(direction)]),
                          ok)

\* resetBackgroundToSolidColor(): this.currentBackgroundColor is the number
\* of the colour the tree holds at scene.backgroundColor (setBackgroundColor
\* writes both).
ResetBackgroundToSolidColor(X, ok) ==
    LET currentBackgroundColor ==
            JsNumber(StringToHex(GetStateProperty(X.state, <<"scene", "backgroundColor">>).v))
        X1 == SceneManagerSetBackgroundColor(X, currentBackgroundColor, ok)
    IN  IF X1.raised THEN X1
        ELSE UpdateState(X1, SceneWith(X1.state, [backgroundType |-> JsString("solid")]), ok)

ApplyBackgroundTheme(X, themeName, ok) ==
    IF themeName \notin DOMAIN Themes THEN X
    ELSE LET X1 == IF Themes[themeName].solid
                   THEN SceneManagerSetBackgroundColor(X, JsNumber(Themes[themeName].hex), ok)
                   ELSE SetGradientBackground(X, Themes[themeName].colors[1],
                                              Themes[themeName].colors[2], "vertical", ok)
             X2 == SetStateProperty(X1, <<"scene", "currentTheme">>, JsString(themeName), ok)
         IN  IF X2.raised THEN X2
             ELSE AddToHistory(X2,
                               JsObject([action |-> JsString("apply_background_theme"),
                                         theme |-> JsString(themeName)]),
                               ok)

\* ---------------------------------------------------------------- application handlers
\* The handlers of app.js, each with every call it makes.  Layer ids come
\* from the layers shown in the panel.
ShownIds == {layers[i].id : i \in {j \in 1 .. Len(layers) : layers[j] # Undefined}}

\* Clicks that add to the history are counted up to MaxClicks entries.
MayClick == Len(UndoStack(state)) < MaxClicks

DoApplyThemeClick ==
    /\ MayClick
    /\ \E themeName \in DOMAIN Themes :
          AppCall("applyThemeClick", 0, ApplyBackgroundTheme(ThisRun, themeName, TRUE))

DoResetBackgroundClick ==
    /\ MayClick
    /\ AppCall("resetBackgroundClick", 0, ResetBackgroundToSolidColor(ThisRun, TRUE))

\* addCubeBtn: addCube() makes a new mesh (visible, as three.js makes it),
\* pushes it onto objects and into the current layer; then the counters and
\* the history.
DoAddCubeClick ==
    LET cube == Len(objectList) + 1
        out == AddObjectToCurrentLayer(Here, cube)
        X == IF out.ret = "TypeError" THEN ThisRun
             ELSE AddToHistory(IncrementObjectCount(ThisRun, TRUE),
                               JsObject([action |-> JsString("add_object"),
                                         type |-> JsString("cube")]),
                               TRUE)
    IN  /\ MayClick
        /\ Len(objectList) < MaxHeld
        /\ objectList' = Append(objectList, cube)
        /\ shown' = shown \cup {cube}
        /\ LayerEffect("addObjectToCurrentLayer", 0, cube, out)
        /\ AppEffect("addCubeClick", 0, X)
        /\ UNCHANGED subscribed

DoAddLayerClick ==
    LET out == AddLayer(Here, CustomName)
        X == AddToHistory(IncrementLayerCount(ThisRun, TRUE),
                          JsObject([action |-> JsString("add_layer"),
                                    layerName |-> JsString("Custom")]),
                          TRUE)
    IN  /\ MayClick
        /\ nextLayerId <= MaxLayerId
        /\ LayerEffect("addLayer", 0, 0, out)
        /\ AppEffect("addLayerClick", 0, X)
        /\ UNCHANGED <<sceneVars, subscribed>>

\* The checkbox of a layer item.
DoVisibilityChange == \E id \in ShownIds : CallToggleLayerVisibility(id)

\* The delete button of a layer item.
DoDeleteLayerClick ==
    /\ Len(layers) > 1
    /\ \E id \in ShownIds : CallRemoveLayer(id)

\* clearSceneBtn: clearLayerScene() empties every layer and the list, then
\* the history.
DoClearSceneClick ==
    LET out == GetAllObjects(Here)
        X == IF out.ret = "TypeError" THEN ThisRun
             ELSE AddToHistory(ThisRun, JsObject([action |-> JsString("clear_scene")]), TRUE)
    IN  /\ MayClick
        /\ layers' = IF out.ret = "TypeError" THEN layers
                      ELSE [i \in 1 .. Len(layers) |-> [layers[i] EXCEPT !.objects = <<>>]]
        /\ objectList' = IF out.ret = "TypeError" THEN objectList ELSE <<>>
        /\ shown' = IF out.ret = "TypeError" THEN shown ELSE {}
        /\ last' = [op |-> "clearScene", id |-> 0, obj |-> 0, cur |-> currentLayerId,
                     ret |-> out.ret, val |-> <<>>]
        /\ AppEffect("clearSceneClick", 0, X)
        /\ UNCHANGED <<layersMinus1, currentLayerId, nextLayerId, usedIds, orphans, subscribed>>

\* A frame that shows the visible objects without hiding the others first.
AnimateWithoutHiding(S, objs, flags) ==
    LET visibleObjects == GetVisibleObjects(S)
    IN  IF visibleObjects.ret = "TypeError" THEN flags
        ELSE flags \cup Range(visibleObjects.val)

\* animate(): the flags of the handles after the frame.
Animate(S, objs, flags) ==
    LET visibleObjects == GetVisibleObjects(S)
    IN  IF visibleObjects.ret = "TypeError" THEN flags
        ELSE (flags \ Range(objs)) \cup Range(visibleObjects.val)

DoAnimate ==
    /\ shown' = Animate(Here, objectList, shown)
    /\ last' = [op |-> "animate", id |-> 0, obj |-> 0, cur |-> currentLayerId,
                 ret |-> GetVisibleObjects(Here).ret, val |-> GetVisibleObjects(Here).val]
    /\ UNCHANGED <<layers, layersMinus1, currentLayerId, nextLayerId, usedIds, orphans,
                   appVars, objectList>>

\* config.scene.backgroundColor, 0x808080.
ConfigBackgroundColor == 8421504

\* config.camera.initialAngle.
ConfigInitialAngle == 0

\* What loading the page does to the state manager: state.js constructs it
\* from the stored item; init() constructs the SceneManager, whose setupScene
\* calls setBackgroundColor (the tree's colour and a history entry) and
\* setStateProperty, and then calls setCameraAngle.
Startup(item, ok) ==
    LET constructed == Run(Construct(item, ok), item, <<>>)
        background == SceneManagerSetBackgroundColor(constructed,
                                                     JsNumber(ConfigBackgroundColor), TRUE)
        setup == SetStateProperty(background, <<"scene", "backgroundColor">>,
                                  JsString(HexToString(ConfigBackgroundColor)), TRUE)
    IN  SetCameraAngle(setup, JsNumber(ConfigInitialAngle), TRUE)

\* The page is loaded again: every module-scope object is made anew.
DoStartup ==
    /\ MayClick
    /\ AppEffect("startup", 0, Startup(storage, TRUE))
    /\ subscribed' = <<>>
    /\ layers' = <<NewLayer(1, DefaultName(1))>>
    /\ layersMinus1' = Undefined
    /\ currentLayerId' = 1
    /\ nextLayerId' = 2
    /\ usedIds' = {1}
    /\ orphans' = {}
    /\ last' = [op |-> "constructor", id |-> 0, obj |-> 0, cur |-> 1, ret |-> "none",
                 val |-> <<>>]
    /\ objectList' = <<>>
    /\ shown' = {}

\* Sessions of the page: actions are recorded, undone and redone, and the
\* page is loaded again.
NextStartup ==
    \/ DoAddToHistorySaved
    \/ DoUndoSaved
    \/ DoRedoSaved
    \/ DoStartup

SpecStartup == Init /\ [][NextStartup]_vars

\* The change handler of the current-layer dropdown; its options are the
\* layers of the store.
DoCurrentLayerChange ==
    /\ MayClick
    /\ \E layerId \in ShownIds :
          LET out == SetCurrentLayer(Here, layerId)
              X == IF out.ret = "TypeError" THEN ThisRun
                   ELSE AddToHistory(SetCurrentLayerId(ThisRun, JsNumber(layerId), TRUE),
                                     JsObject([action |-> JsString("change_layer"),
                                               layerId |-> JsNumber(layerId)]),
                                     TRUE)
          IN  /\ LayerEffect("setCurrentLayer", layerId, 0, out)
              /\ AppEffect("currentLayerChange", layerId, X)
              /\ UNCHANGED <<sceneVars, subscribed>>

\* What a move button of a layer item does after the move returned true:
\* updateLayersList redraws the panel, then the handler evaluates
\* stateManager, which layerManager.js neither imports nor declares and no
\* script defines as a global: a ReferenceError is raised before addToHistory
\* is called.
RecordMove(X, action, layer) == [X EXCEPT !.raised = TRUE]

\* The click on the move-up or move-down button of the item of layer id.
MoveClick(click, op, action, id, out) ==
    LET layer == layers[FindIndex(layers, id)]
        X == IF out.ret = "true" THEN RecordMove(ThisRun, action, layer) ELSE ThisRun
    IN  /\ LayerEffect(op, id, 0, out)
        /\ AppEffect(click, id, X)
        /\ UNCHANGED <<sceneVars, subscribed>>

DoMoveUpClick ==
    \E id \in ShownIds :
        MoveClick("moveUpClick", "moveLayerUp", "move_layer_up", id, MoveLayerUp(Here, id))

DoMoveDownClick ==
    \E id \in ShownIds :
        MoveClick("moveDownClick", "moveLayerDown", "move_layer_down", id, MoveLayerDown(Here, id))

\* The layer panel: layers are added, deleted, chosen and moved.
NextLayerPanel ==
    \/ DoAddLayerClick
    \/ DoDeleteLayerClick
    \/ DoCurrentLayerChange
    \/ DoMoveUpClick
    \/ DoMoveDownClick

SpecLayerPanel == Init /\ [][NextLayerPanel]_vars

\* The undoable controls of the scene and object panels.
NextControls ==
    \/ DoApplyThemeClick
    \/ DoResetBackgroundClick
    \/ DoAddCubeClick
    \/ DoUndoSaved
    \/ DoRedoSaved

SpecControls == Init /\ [][NextControls]_vars

\* The page at work: cubes and layers are added, layers hidden and deleted,
\* the scene cleared, and frames are drawn in between.
NextFrames ==
    \/ DoAddCubeClick
    \/ DoAddLayerClick
    \/ DoVisibilityChange
    \/ DoDeleteLayerClick
    \/ DoClearSceneClick
    \/ DoAnimate

SpecFrames == Init /\ [][NextFrames]_vars

\* Reads and writes by path and updates by section, one listener subscribed
\* or none.
NextPaths ==
    \/ DoSubscribeFirst
    \/ DoGetStateProperty
    \/ DoSetStatePropertyAt
    \/ DoUpdateStateWith

SpecPaths == Init /\ [][NextPaths]_vars

\* The convenience setters, called with one listener subscribed or none.
NextSetters ==
    \/ DoSubscribeFirst
    \/ DoSetCameraAngle
    \/ DoSetCameraPosition
    \/ DoSetBackgroundColor
    \/ DoSetSelectedObjectId
    \/ DoIncrementObjectCount
    \/ DoSetCurrentLayerId
    \/ DoIncrementLayerCount
    \/ DoTogglePanelVisibility
    \/ DoSetActiveTab
    \/ DoSetCurrentTool
    \/ DoToggleSnapToGrid

SpecSetters == Init /\ [][NextSetters]_vars

\* The history log, with storage writes that may fail and one listener
\* subscribed or none.
NextHistory ==
    \/ DoSubscribeFirst
    \/ DoAddToHistory
    \/ DoUndo
    \/ DoRedo

SpecHistory == Init /\ [][NextHistory]_vars

\* A run of addToHistory calls from the default tree, long enough to pass
\* maxHistorySize.
NextHistoryCap == DoAddNumbered

\* addToHistory as the add-object buttons call it; the stacks are bounded by
\* maxHistorySize alone.
DoAddToFullHistory ==
    AppCall("addToHistory", 0,
            AddToHistory(ThisRun,
                         JsObject([action |-> JsString("add_object"), type |-> JsString("cube")]),
                         TRUE))

\* Every interleaving of addToHistory, undo and redo from the default tree.
NextHistoryFull ==
    \/ DoAddToFullHistory
    \/ DoUndoSaved
    \/ DoRedoSaved

SpecHistoryFull == Init /\ [][NextHistoryFull]_vars

SpecHistoryCap == Init /\ [][NextHistoryCap]_vars

\* The mutating methods with listeners that come and go, every storage
\* write going through.
NextNotify ==
    \/ DoSubscribe
    \/ DoUnsubscribe
    \/ DoSetStateProperty
    \/ DoUpdateState
    \/ DoResetState
    \/ DoAddToHistorySaved
    \/ DoUndoSaved
    \/ DoRedoSaved

SpecNotify == Init /\ [][NextNotify]_vars

\* The mutating methods with storage that may fail at each call, one
\* listener that returns subscribed or none.
NextWriteFails ==
    \/ DoSubscribeFirst
    \/ TrySetStateProperty
    \/ TryUpdateState
    \/ TryResetState
    \/ DoClearState
    \/ DoAddToHistory
    \/ DoUndo
    \/ DoRedo

SpecWriteFails == Init /\ [][NextWriteFails]_vars

\* Pages that are reloaded: what the constructor makes of what was stored.
NextReload ==
    \/ DoConstruct
    \/ DoCorruptItem
    \/ DoSetSelectedObjectId
    \/ DoIncrementObjectCount
    \/ DoAddToHistory
    \/ DoUndo
    \/ DoRedo

SpecReload == Init /\ [][NextReload]_vars

\* ---------------------------------------------------------------- properties
IdsOf(ls) == [i \in 1 .. Len(ls) |-> ls[i].id]

NoDuplicateIds(ls) == \A i, j \in 1 .. Len(ls) : ls[i].id = ls[j].id => i = j

MoveOps == {"moveLayerUp", "moveLayerDown"}

\* C1: in every reachable state the layer sequence holds at least one layer
\* (every slot of it is a layer) and currentLayerId is the id of one of them.
C1_LayersNonEmptyAndCurrentExists ==
    /\ Len(layers) >= 1
    /\ Holes(layers) = {}
    /\ \E i \in 1 .. Len(layers) : layers[i].id = currentLayerId

\* C2: moveLayerUp(id) and moveLayerDown(id) with an id of no layer return
\* false and leave the layer sequence unchanged.
C2_MoveUnknownIdRejected ==
    [][(last'.op \in MoveOps /\ HasId(layers, last'.id) = {})
         => (last'.ret = "false" /\ layers' = layers)]_vars

\* The operations of C3 and the value each returns to reject a call:
\* null for toggleLayerVisibility (false is its new visibility), false for the rest.
RejectingOps ==
    {"removeLayer", "renameLayer", "setCurrentLayer", "removeObjectFromLayer",
     "moveObjectToLayer", "reorderLayers", "moveLayerUp", "moveLayerDown",
     "toggleLayerVisibility"}

Rejected(l) ==
    /\ l.op \in RejectingOps
    /\ l.ret = (IF l.op = "toggleLayerVisibility" THEN "null" ELSE "false")

\* C3: a call that returns its falsy sentinel leaves layers, currentLayerId
\* and nextLayerId as they were before the call.
C3_RejectionLeavesStoreUnchanged ==
    [][Rejected(last') => UNCHANGED <<layers, currentLayerId, nextLayerId>>]_vars

\* The sequence s with positions i and i + 1 exchanged.
SwappedAt(s, i) ==
    [j \in 1 .. Len(s) |-> IF j = i THEN s[i + 1] ELSE IF j = i + 1 THEN s[i] ELSE s[j]]

\* The positions of the layers with the given id (at most one in the states
\* the store reaches).
PositionsOf(ls, id) == {i \in 1 .. Len(ls) : ls[i].id = id}

\* C4: for the id of an existing layer, moveLayerUp at the first position and
\* moveLayerDown at the last return false and change nothing; at any other
\* position the call returns true, exchanges the layer with its neighbour in
\* that direction and changes nothing else.
C4_MoveSwapsAdjacent ==
    [][\A p \in PositionsOf(layers, last'.id) :
          last'.op \in MoveOps =>
            LET up == last'.op = "moveLayerUp"
                atEnd == IF up THEN p = 1 ELSE p = Len(layers)
            IN  /\ currentLayerId' = currentLayerId
                /\ nextLayerId' = nextLayerId
                /\ IF atEnd
                   THEN last'.ret = "false" /\ layers' = layers
                   ELSE /\ last'.ret = "true"
                        /\ layers' = SwappedAt(layers, IF up THEN p - 1 ELSE p)]_vars

\* C5: addLayer returns a layer whose id is the nextLayerId from before the
\* call, raises nextLayerId by exactly 1, appends that layer at the end, makes
\* it current, and leaves no two layers with the same id.
C5_AddLayerTakesNextId ==
    [][last'.op = "addLayer" =>
         /\ last'.ret = "layer"
         /\ last'.val[1].id = nextLayerId
         /\ nextLayerId' = nextLayerId + 1
         /\ Len(layers') = Len(layers) + 1
         /\ SubSeq(layers', 1, Len(layers)) = layers
         /\ layers'[Len(layers')] = last'.val[1]
         /\ currentLayerId' = last'.val[1].id
         /\ NoDuplicateIds(layers')]_vars

C5_Witness ==
    /\ last.op = "addLayer"
    /\ IdsOf(layers) = <<1, 2, 3>>
    /\ currentLayerId = 3
    /\ nextLayerId = 4

\* C6: the id of a newly added layer is greater than the id of every layer
\* that exists or has existed, removed ones included.
C6_AddedIdIsFresh ==
    [][last'.op = "addLayer" => \A u \in usedIds : last'.val[1].id > u]_vars

\* A layer is added after another one was removed.
C6_Witness ==
    /\ last.op = "addLayer"
    /\ usedIds \ LayerIds(layers) # {}
    /\ last.val[1].id \in LayerIds(layers)

\* C7: with a layer sequence of length one, removeLayer returns false for
\* every id and leaves layers and currentLayerId unchanged.
C7_SoleLayerNotRemoved ==
    [][(last'.op = "removeLayer" /\ Len(layers) = 1)
         => (last'.ret = "false" /\ layers' = layers /\ currentLayerId' = currentLayerId)]_vars

\* removeLayer was called with the id of the one layer left after a removal.
C7_Witness ==
    /\ last.op = "removeLayer"
    /\ last.ret = "false"
    /\ Len(layers) = 1
    /\ layers[1].id = last.id
    /\ Cardinality(usedIds) > 1

RECURSIVE OwnersOf(_, _)
OwnersOf(ls, i) ==
    IF i > Len(ls) THEN <<>>
    ELSE [j \in 1 .. Len(ls[i].objects) |-> i] \o OwnersOf(ls, i + 1)

RECURSIVE KeepVisible(_, _, _)
KeepVisible(all, owners, ls) ==
    IF all = <<>> THEN <<>>
    ELSE (IF ls[Head(owners)].visible THEN <<Head(all)>> ELSE <<>>)
         \o KeepVisible(Tail(all), Tail(owners), ls)

\* C9: in every reachable state getVisibleObjects() is getAllObjects()
\* restricted to the objects of the visible layers, in the same order, and
\* neither query changes the store.
C9_VisibleIsAllRestricted ==
    LET all == GetAllObjects(Here)
        vis == GetVisibleObjects(Here)
    IN  /\ all.ret = "list"
        /\ vis.ret = "list"
        /\ vis.val = KeepVisible(all.val, OwnersOf(layers, 1), layers)
        /\ all.store = Here
        /\ vis.store = Here

\* C10: reorderLayers(newOrder) returns false and changes nothing unless
\* newOrder is a permutation of the current layer ids; for a permutation it
\* returns true and the same layer records stand in the order of newOrder,
\* with currentLayerId unchanged.
C10_ReorderOnlyByPermutation ==
    [][\A newOrder \in NewOrders :
          CallReorderLayers(newOrder) =>
            /\ currentLayerId' = currentLayerId
            /\ nextLayerId' = nextLayerId
            /\ IF IsPermutationOfIds(newOrder, layers)
               THEN /\ last'.ret = "true"
                    /\ Len(layers') = Len(layers)
                    /\ \A i \in 1 .. Len(layers') :
                          /\ layers'[i].id = newOrder[i].n
                          /\ \E j \in 1 .. Len(layers) : layers[j] = layers'[i]
               ELSE last'.ret = "false" /\ layers' = layers]_vars

\* How many times the handle stands in the layers' object sequences.
Occurrences(ls, h) ==
    Len(SelectSeq(Flatten([i \in 1 .. Len(ls) |-> ls[i].objects]), LAMBDA g : g = h))

WithoutHandle(objects, h) == SelectSeq(objects, LAMBDA g : g # h)

\* C11: moveObjectToLayer(h, t) with t the id of an existing layer, h held at
\* most once before, returns true; afterwards h is the last object of layer t
\* and stands nowhere else, and every other handle keeps its layer and its
\* place among the others.
C11_MoveObjectAppendsToTarget ==
    [][\A h \in ObjHandles, t \in ArgIds :
          (CallMoveObjectToLayer(h, t) /\ HasId(layers, t) # {} /\ Occurrences(layers, h) <= 1)
            => /\ last'.ret = "true"
               /\ Len(layers') = Len(layers)
               /\ Occurrences(layers', h) = 1
               /\ \A i \in 1 .. Len(layers) :
                     /\ layers'[i].id = layers[i].id
                     /\ WithoutHandle(layers'[i].objects, h) = WithoutHandle(layers[i].objects, h)
                     /\ layers[i].id = t =>
                           /\ layers'[i].objects # <<>>
                           /\ layers'[i].objects[Len(layers'[i].objects)] = h]_vars

RecentActions(n, max) ==
    LET held == IF n < max THEN n ELSE max
    IN  [i \in 1 .. held |-> NumberedAction(n - held + i)]

\* C13: after n addToHistory calls from the default tree undoStack holds at
\* most maxHistorySize entries: the most recent min(n, maxHistorySize)
\* actions in the order they were added (the oldest ones are the ones evicted).
C13_UndoStackIsRecentWindow ==
    LET maxHistorySize == GetStateProperty(state, <<"history", "maxHistorySize">>).v
        n == IF done.op = "addToHistory" THEN done.arg ELSE 0
    IN  /\ Len(UndoStack(state)) <= maxHistorySize
        /\ UndoStack(state) = RecentActions(n, maxHistorySize)

\* The last of more than maxHistorySize + 1 actions was added: the stack is
\* full and its first two actions are gone.
C13_Witness ==
    /\ done.op = "addToHistory"
    /\ done.arg = DefaultMaxHistorySize + 2
    /\ Len(UndoStack(state)) = DefaultMaxHistorySize
    /\ UndoStack(state)[1] = NumberedAction(3)
    /\ UndoStack(state)[DefaultMaxHistorySize] = NumberedAction(DefaultMaxHistorySize + 2)

\* C14: right after every addToHistory call redoStack is empty, whatever it
\* held before; undo never empties redoStack, and redo empties it only by
\* popping its last entry.
C14_AddToHistoryClearsRedo ==
    [][/\ done'.op = "addToHistory" => RedoStack(state') = <<>>
       /\ (done'.op = "undo" /\ RedoStack(state) # <<>>) => RedoStack(state') # <<>>
       /\ (done'.op = "redo" /\ RedoStack(state) # <<>> /\ RedoStack(state') = <<>>)
            => (Len(RedoStack(state)) = 1 /\ done'.ret = RedoStack(state)[1])]_vars

\* An action was added while redoStack held an undone action.
C14_Witness ==
    /\ done.op = "addToHistory"
    /\ done.had[2] > 0
    /\ RedoStack(state) = <<>>
    /\ Len(UndoStack(state)) = done.had[1] + 1

\* The tree, the stored item and the listeners a finished call leaves, as
\* the next call finds them.
After(X) == Run(X.state, X.storage, X.listeners)

\* C15: in every reachable state with a non-empty undoStack, undo() followed
\* at once by redo() leaves undoStack and redoStack with their contents and
\* order from before the undo, and the two calls return the same action.
C15_UndoThenRedoRestores ==
    UndoStack(state) # <<>> =>
        \A ok1, ok2 \in Oks :
            LET undone == Undo(ThisRun, ok1)
                redone == Redo(After(undone), ok2)
            IN  /\ UndoStack(redone.state) = UndoStack(state)
                /\ RedoStack(redone.state) = RedoStack(state)
                /\ undone.ret = UndoStack(state)[Len(UndoStack(state))]
                /\ redone.ret = undone.ret

\* redo() has just returned an action to a stack that holds two, an undone
\* action still waiting on redoStack.
C15_Witness ==
    /\ done.op = "redo"
    /\ done.ret # JsNull
    /\ done.had = <<0, 2>>
    /\ RedoStack(state) # <<>>
    /\ done.ret = UndoStack(state)[1]

\* C16: undo() with undoStack empty and redo() with redoStack empty return
\* null, leave the tree as it was, write nothing to storage and call no
\* listener.
C16_EmptyUndoRedoDoNothing ==
    [][((done'.op = "undo" /\ UndoStack(state) = <<>>)
          \/ (done'.op = "redo" /\ RedoStack(state) = <<>>))
         => /\ done'.ret = JsNull
            /\ ~done'.raised
            /\ done'.log = <<>>
            /\ state' = state
            /\ storage' = storage
            /\ listeners' = listeners]_vars

\* undo() found undoStack empty while a listener was subscribed and the
\* stored item was older than the tree.
C16_Witness ==
    /\ done.op = "undo"
    /\ done.had[1] = 0
    /\ done.ret = JsNull
    /\ listeners # <<>>
    /\ RedoStack(state) # <<>>
    /\ storage # Stringify(state)

\* The last saveState of the call went through and serialized the tree the
\* call left.
LastSaveWentThrough(d) ==
    \E i \in 1 .. Len(d.log) :
        /\ d.log[i].e = "save"
        /\ d.log[i].ok
        /\ d.log[i].at = d.writes
        /\ \A j \in (i + 1) .. Len(d.log) : d.log[j].e # "save"

\* C17: in every reachable state whose tree has just been persisted, a state
\* manager constructed from the stored snapshot holds a tree equal to it.
C17_SnapshotRestoresTree ==
    LastSaveWentThrough(done) => Construct(storage, TRUE) = state

\* The methods of C18, which change the tree when they succeed (undo and
\* redo: when their stack is not empty).
MutatingOps == {"setStateProperty", "updateState", "resetState", "addToHistory", "undo", "redo"}

Saves(log) == SelectSeq(log, LAMBDA ev : ev.e = "save")

CallsOf(log, reg) == SelectSeq(log, LAMBDA ev : ev.e = "call" /\ ev.reg = reg)

\* The call changed the tree and returned, and each of its storage writes
\* went through.
Succeeded(d) ==
    /\ d.writes > 0
    /\ ~d.raised
    /\ \A i \in 1 .. Len(d.log) : d.log[i].e = "save" => d.log[i].ok

\* C18: after a successful setStateProperty, updateState, resetState,
\* addToHistory, or undo / redo of a non-empty stack, with the storage write
\* going through, the stored snapshot is the serialization of the tree the
\* call left and every subscribed listener has been called with that tree.
C18_MutationPersistsAndNotifies ==
    [][(done'.op \in MutatingOps /\ Succeeded(done'))
         => /\ storage' = Stringify(state')
            /\ \A i \in 1 .. Len(listeners') :
                  \E j \in 1 .. Len(done'.log) :
                      /\ done'.log[j].e = "call"
                      /\ done'.log[j].reg = listeners'[i].reg
                      /\ done'.log[j].at = done'.writes]_vars

\* undo() moved an action while two listeners were subscribed: one save and
\* two listener calls.
C18_Witness ==
    /\ done.op = "undo"
    /\ done.ret # JsNull
    /\ ~done.raised
    /\ Len(listeners) = 2
    /\ Len(done.log) = 3
    /\ storage = Stringify(state)

\* The convenience setters of the state manager.
ConvenienceSetters ==
    {"setCameraAngle", "setCameraPosition", "setBackgroundColor", "setSelectedObjectId",
     "incrementObjectCount", "setCurrentLayerId", "incrementLayerCount",
     "togglePanelVisibility", "setActiveTab", "setCurrentTool", "toggleSnapToGrid"}

\* C19: a call of a convenience setter makes exactly one saveState call and
\* calls each listener exactly once.
C19_SetterPersistsAndNotifiesOnce ==
    done.op \in ConvenienceSetters =>
        /\ Len(Saves(done.log)) = 1
        /\ \A i \in 1 .. Len(listeners) : Len(CallsOf(done.log, listeners[i].reg)) = 1

RegsOf(ls) == [i \in 1 .. Len(ls) |-> ls[i].reg]

\* C20: a successful mutation calls the listeners in the order of their
\* registration; calling the unsubscribe function of one registration takes
\* that registration out of the listeners and leaves every other one in,
\* another registration of the same callback included.
C20_UnsubscribeRemovesOneRegistration ==
    [][/\ done'.op = "unsubscribe" =>
            LET reg == done'.arg
            IN  listeners' = SelectSeq(listeners, LAMBDA listener : listener.reg # reg)
       /\ (done'.op \in MutatingOps /\ Succeeded(done')) =>
            /\ RegsOf(SelectSeq(done'.log, LAMBDA ev : ev.e = "call")) = RegsOf(listeners)
            /\ \A i, j \in 1 .. Len(listeners) : i < j => listeners[i].reg < listeners[j].reg]_vars

\* A call of localStorage made by the call did not go through.
FailedWrite(d) ==
    \E i \in 1 .. Len(d.log) : d.log[i].e \in {"save", "remove"} /\ ~d.log[i].ok

\* What the tree holds after the call when its mutation is in it, as later
\* reads give it.
Reflects(op, before, after, ret) ==
    CASE op = "setStateProperty" ->
           GetStateProperty(after, <<"scene", "currentCameraAngle">>) = JsNumber(90)
      [] op = "updateState" ->
           GetStateProperty(after, <<"scene", "gridVisible">>) = JsBoolean(FALSE)
      [] op \in {"resetState", "clearState"} -> after = GetDefaultState
      [] op = "addToHistory" ->
           /\ UndoStack(after) # <<>>
           /\ Front(UndoStack(after)) = UndoStack(before)
           /\ UndoStack(after)[Len(UndoStack(after))] \in Actions
           /\ RedoStack(after) = <<>>
      [] op = "undo" ->
           /\ UndoStack(before) = Append(UndoStack(after), ret)
           /\ RedoStack(after) = Append(RedoStack(before), ret)
      [] op = "redo" ->
           /\ RedoStack(before) = Append(RedoStack(after), ret)
           /\ UndoStack(after) = Append(UndoStack(before), ret)
      [] OTHER -> FALSE

\* Every listener was called with the tree the call left.
AllNotified(d, ls) ==
    \A i \in 1 .. Len(ls) :
        \E j \in 1 .. Len(d.log) :
            /\ d.log[j].e = "call"
            /\ d.log[j].reg = ls[i].reg
            /\ d.log[j].at = d.writes

\* A call of one of the operations ops during which localStorage failed
\* raised nothing, left its mutation in the tree and called the listeners
\* with the new tree.
WriteFailureIsHarmless(ops) ==
    (done'.op \in ops /\ FailedWrite(done'))
      => /\ ~done'.raised
         /\ Reflects(done'.op, state, state', done'.ret)
         /\ AllNotified(done', listeners')

\* C21: when the call of localStorage fails during a mutating operation
\* (setStateProperty, updateState, resetState, clearState, addToHistory, undo,
\* redo), the operation raises nothing, the tree holds the mutation, as later
\* reads show, and the listeners are called with the new tree.
C21_WriteFailureLeavesMutation ==
    [][WriteFailureIsHarmless(MutatingOps \cup {"clearState"})]_vars

\* The operations that persist through saveState, taken alone.
SaveFailureLeavesMutation == [][WriteFailureIsHarmless(MutatingOps)]_vars

\* C22: a state manager constructed while no item is stored, while the stored
\* text cannot be parsed, or while reading localStorage fails, holds the
\* default tree (both stacks empty, maxHistorySize 50), and the constructor
\* raises nothing.
C22_ConstructFallsBackToDefault ==
    [][(done'.op = "constructor" /\ (storage \in {NoItem, Unparsable} \/ done'.arg = 1))
         => /\ ~done'.raised
            /\ state' = GetDefaultState
            /\ UndoStack(state') = <<>>
            /\ RedoStack(state') = <<>>
            /\ GetStateProperty(state', <<"history", "maxHistorySize">>)
                 = JsNumber(DefaultMaxHistorySize)]_vars

\* The page was loaded while a snapshot with an action on undoStack was
\* stored and localStorage could not be read.
C22_Witness ==
    /\ done.op = "constructor"
    /\ done.arg = 1
    /\ storage.k = "text"
    /\ Parse(storage).v.history.v.undoStack.v # <<>>
    /\ state = GetDefaultState

\* C23: after clearState() no snapshot is stored, the tree is the default
\* tree, every listener has been called with it, and the default tree was not
\* written back: a state manager constructed then falls back to the default
\* tree.  The item stays absent until the next mutating operation.
C23_ClearStateResetsWithoutSaving ==
    [][/\ done'.op = "clearState"
            => /\ storage' = NoItem
               /\ state' = GetDefaultState
               /\ AllNotified(done', listeners')
               /\ Saves(done'.log) = <<>>
               /\ \A ok \in Oks : Construct(storage', ok) = GetDefaultState
       /\ (storage = NoItem /\ storage' # NoItem)
            => (done'.op \in MutatingOps \cup ConvenienceSetters /\ done'.writes > 0)]_vars

\* The same for the calls of clearState whose removeItem went through.
ClearStateResetsWhenRemoved ==
    [][(done'.op = "clearState" /\ ~FailedWrite(done'))
         => /\ storage' = NoItem
            /\ state' = GetDefaultState
            /\ AllNotified(done', listeners')
            /\ Saves(done'.log) = <<>>
            /\ \A ok \in Oks : Construct(storage', ok) = GetDefaultState]_vars

\* The handlers of the undoable controls.
UndoableControls == {"applyThemeClick", "resetBackgroundClick", "addCubeClick"}

\* C26: one interaction with an undoable control (applying a background
\* theme, resetting the background, adding an object) appends exactly one
\* entry to undoStack.
C26_OneEntryPerInteraction ==
    [][done'.op \in UndoableControls
         => Len(UndoStack(state')) = Len(UndoStack(state)) + 1]_vars

\* The handles of the layers that are visible.
InVisibleLayer(ls) ==
    UNION {Range(ls[i].objects) : i \in {j \in 1 .. Len(ls) : ls[j].visible}}

\* C27: after a frame every handle of the object list has its flag set if
\* and only if it is in a layer with visible = true, which is when
\* getVisibleObjects() returns it; the frame leaves the layer store as it was.
C27_FrameShowsVisibleLayers ==
    [][last'.op = "animate"
         => /\ last'.ret = "list"
            /\ \A h \in Range(objectList') :
                  /\ h \in shown' <=> h \in InVisibleLayer(layers')
                  /\ h \in shown' <=> h \in Range(last'.val)
            /\ UNCHANGED <<layers, layersMinus1, currentLayerId, nextLayerId>>]_vars

\* A frame was drawn with two cubes in the list: one shown, the other in a
\* hidden layer and not shown.
C27_Witness ==
    /\ last.op = "animate"
    /\ Len(objectList) = 2
    /\ \E h \in Range(objectList) : h \in shown
    /\ \E h \in Range(objectList) :
          /\ h \notin shown
          /\ \E i \in 1 .. Len(layers) : ~layers[i].visible /\ h \in Range(layers[i].objects)

\* Some segment of the path is not a key of the container the segments before
\* it lead to.
RECURSIVE Missing(_, _)
Missing(obj, keys) ==
    /\ keys # <<>>
    /\ \/ obj.k # "object"
       \/ Head(keys) \notin DOMAIN obj.v
       \/ Missing(obj.v[Head(keys)], Tail(keys))

\* C24: getStateProperty(path) returns undefined and raises nothing when a
\* segment of the path is missing from the tree; it never changes the tree,
\* writes to storage or calls a listener.
C24_GetStatePropertyIsTotalAndPure ==
    [][done'.op = "getStateProperty"
         => /\ Missing(state, ReadPaths[done'.arg]) => done'.ret = JsUndefined
            /\ ~done'.raised
            /\ done'.log = <<>>
            /\ UNCHANGED <<state, storage, listeners>>]_vars

\* A read through a section that an updateState call has replaced by one
\* without the field cameraPosition.
C24_Witness ==
    /\ done.op = "getStateProperty"
    /\ ReadPaths[done.arg] = <<"scene", "cameraPosition", "x">>
    /\ "cameraPosition" \notin DOMAIN state.v.scene.v
    /\ done.ret = JsUndefined
    /\ listeners # <<>>

\* Each listener was called once by the call, with the tree it left.
EachNotifiedOnce(d, ls) ==
    \A i \in 1 .. Len(ls) :
        /\ Len(CallsOf(d.log, ls[i].reg)) = 1
        /\ CallsOf(d.log, ls[i].reg)[1].at = d.writes

\* C25: updateState(partial) replaces the top-level sections named in
\* partial by the given values, leaves every other section as it was, then
\* persists once and calls each listener once.
C25_UpdateStateReplacesNamedSections ==
    [][(done'.op = "updateState" /\ done'.arg \in 1 .. Len(Partials))
         => LET partial == Partials[done'.arg]
            IN  /\ DOMAIN state'.v = DOMAIN state.v \cup DOMAIN partial.v
                /\ \A key \in DOMAIN partial.v : state'.v[key] = partial.v[key]
                /\ \A key \in DOMAIN state.v \ DOMAIN partial.v : state'.v[key] = state.v[key]
                /\ Len(Saves(done'.log)) = 1
                /\ Saves(done'.log)[1].at = done'.writes
                /\ EachNotifiedOnce(done', listeners')]_vars

\* A scene section with several fields was replaced by one with a single
\* field while a listener was subscribed.
C25_Witness ==
    /\ done.op = "updateState"
    /\ done.arg = 1
    /\ DOMAIN state.v.scene.v = {"backgroundColor"}
    /\ "notes" \in DOMAIN state.v
    /\ listeners # <<>>
    /\ storage = Stringify(state)

\* C29: for a path whose containers exist and a value v, getStateProperty(path)
\* after setStateProperty(path, v) returns v, and a listener subscribed before
\* the call is called exactly once by it, with a tree that holds v at the path.
C29_SetThenGetReturnsValue ==
    [][(/\ done'.op = "setStateProperty"
        /\ done'.arg \in 1 .. Len(Writes)
        /\ Descend(state, Front(Writes[done'.arg].path)).k = "object")
         => /\ ~done'.raised
            /\ GetStateProperty(state', Writes[done'.arg].path) = Writes[done'.arg].value
            /\ done'.writes = 1
            /\ EachNotifiedOnce(done', listeners)]_vars

\* An object was written at a path of three segments while a listener was
\* subscribed.
C29_Witness ==
    /\ done.op = "setStateProperty"
    /\ done.arg \in 1 .. Len(Writes)
    /\ Writes[done.arg].path = <<"scene", "cameraPosition", "x">>
    /\ Writes[done.arg].value.k = "object"
    /\ GetStateProperty(state, <<"scene", "cameraPosition", "x", "x">>) = JsNumber(0)
    /\ listeners # <<>>
    /\ Len(done.log) = 2

\* One step of the reordering scenario: the call op(id) on the order before
\* returns ret and leaves the order after.
ScenarioMove(op, id, before, ret, after) ==
    (last'.op = op /\ last'.id = id /\ IdsOf(layers) = before)
        => (last'.ret = ret /\ IdsOf(layers') = after)

\* C28: from a freshly constructed store two addLayer calls give ids 2 and 3
\* and the order [1, 2, 3]; then moveLayerUp(3) returns true and leaves
\* [1, 3, 2], moveLayerDown(1) returns true and leaves [3, 1, 2], and
\* moveLayerUp(1) returns true and leaves [1, 3, 2].
C28_ReorderScenario ==
    [][/\ (last'.op = "addLayer" /\ IdsOf(layers) = <<1>> /\ nextLayerId = 2)
            => (last'.val[1].id = 2 /\ IdsOf(layers') = <<1, 2>>)
       /\ (last'.op = "addLayer" /\ IdsOf(layers) = <<1, 2>> /\ nextLayerId = 3)
            => (last'.val[1].id = 3 /\ IdsOf(layers') = <<1, 2, 3>>)
       /\ ScenarioMove("moveLayerUp", 3, <<1, 2, 3>>, "true", <<1, 3, 2>>)
       /\ ScenarioMove("moveLayerDown", 1, <<1, 3, 2>>, "true", <<3, 1, 2>>)
       /\ ScenarioMove("moveLayerUp", 1, <<3, 1, 2>>, "true", <<1, 3, 2>>)]_vars

\* The last call of the scenario has returned: layer 1 is back in front of
\* layers 3 and 2, no layer was removed and no id skipped.
C28_Witness ==
    /\ last.op = "moveLayerUp"
    /\ last.id = 1
    /\ last.ret = "true"
    /\ IdsOf(layers) = <<1, 3, 2>>
    /\ nextLayerId = 4
    /\ usedIds = {1, 2, 3}
    /\ layersMinus1 = Undefined

\* C30: the history is last in, first out: in every reachable state, after
\* addToHistory(a) and addToHistory(b) the calls undo, undo, redo, redo return
\* b, a, a, b, whether or not the writes to storage go through.
C30_HistoryIsLastInFirstOut ==
    \A a, b \in Actions, ok \in Oks :
        LET addedA == AddToHistory(ThisRun, a, ok)
            addedB == AddToHistory(After(addedA), b, ok)
            undo1 == Undo(After(addedB), ok)
            undo2 == Undo(After(undo1), ok)
            redo1 == Redo(After(undo2), ok)
            redo2 == Redo(After(redo1), ok)
        IN  /\ undo1.ret = b
            /\ undo2.ret = a
            /\ redo1.ret = a
            /\ redo2.ret = b
            /\ UndoStack(redo2.state) = UndoStack(addedB.state)
            /\ RedoStack(redo2.state) = <<>>

\* The second redo() of the scenario has returned: two different actions
\* were added, both undone, and both are back in the order they were added.
C30_Witness ==
    /\ done.op = "redo"
    /\ done.had = <<1, 1>>
    /\ Len(UndoStack(state)) = 2
    /\ UndoStack(state)[1] # UndoStack(state)[2]
    /\ done.ret = UndoStack(state)[2]
    /\ RedoStack(state) = <<>>

\* The history entry a move button records for a layer (of the name, its
\* text).
MoveEntry(action, layer) ==
    JsObject([action |-> JsString(action), layerId |-> JsNumber(layer.id),
              layerName |-> JsString(layer.name[1])])

\* C31: when the handler of a move-up (move-down) button runs and the move
\* returns true, undoStack grows by exactly one entry tagged move_layer_up
\* (move_layer_down) with the id and name of the layer; when the move returns
\* false, undoStack is left as it was.
C31_MoveButtonRecordsHistory ==
    [][done'.op \in {"moveUpClick", "moveDownClick"}
         => LET action == IF done'.op = "moveUpClick" THEN "move_layer_up" ELSE "move_layer_down"
                layer == layers[FindIndex(layers, done'.arg)]
            IN  IF last'.ret = "true"
                THEN UndoStack(state') = Append(UndoStack(state), MoveEntry(action, layer))
                ELSE UndoStack(state') = UndoStack(state)]_vars

\* C32: after every add-layer, delete-layer and current-layer-dropdown
\* interaction the tree's layers.currentLayerId is the store's currentLayerId.
C32_CurrentLayerIdsAgree ==
    GetStateProperty(state, <<"layers", "currentLayerId">>) = JsNumber(currentLayerId)

\* C33: after every add-layer and delete-layer interaction the tree's
\* layers.layerCount is the number of layers the store holds.
C33_LayerCountIsNumberOfLayers ==
    GetStateProperty(state, <<"layers", "layerCount">>) = JsNumber(Len(layers))

\* The positions of the entries of a layer's objects with the identity of
\* the handle.
Matches(objects, h) == {j \in 1 .. Len(objects) : UserDataId(objects[j]) = UserDataId(h)}

C35_SetStatePropertyMakesNoContainer ==
    [][(/\ done'.op = "setStateProperty"
        /\ done'.arg \in 1 .. Len(Writes)
        /\ Missing(state, Front(Writes[done'.arg].path)))
         => /\ done'.raised
            /\ state' = state
            /\ storage' = storage
            /\ listeners' = listeners
            /\ done'.writes = 0
            /\ done'.log = <<>>]_vars

\* A write below scene.cameraPosition was refused after an updateState call
\* had replaced the scene section by one without that field, a listener
\* being subscribed.
C35_Witness ==
    /\ done.op = "setStateProperty"
    /\ done.arg \in 1 .. Len(Writes)
    /\ Writes[done.arg].path = <<"scene", "cameraPosition", "x">>
    /\ done.raised
    /\ "cameraPosition" \notin DOMAIN state.v.scene.v
    /\ listeners # <<>>
    /\ storage # NoItem

\* The calls of listeners that raised, by their place in the log.
RaisingCalls(log) == {j \in 1 .. Len(log) : log[j].e = "call" /\ ~log[j].ok}

\* C36: when a listener raises while setStateProperty, updateState,
\* resetState, addToHistory, undo or redo notifies, the assignment to the tree
\* was made and the tree written to storage before, no listener registered
\* after the raising one is called for it, and the call itself raises.
C36_RaisingListenerStopsNotification ==
    [][(done'.op \in MutatingOps /\ RaisingCalls(done'.log) # {})
         => \A j \in RaisingCalls(done'.log) :
               /\ done'.raised
               /\ j = Len(done'.log)
               /\ done'.writes >= 1
               /\ done'.log[j].at = done'.writes
               /\ \E i \in 1 .. j - 1 :
                     /\ done'.log[i].e = "save"
                     /\ done'.log[i].ok
                     /\ done'.log[i].at = done'.writes
               /\ storage' = Stringify(state')
               /\ \A k \in 1 .. Len(listeners) :
                     listeners[k].reg > done'.log[j].reg
                       => CallsOf(done'.log, listeners[k].reg) = <<>>]_vars

\* setStateProperty was called with a raising listener registered before a
\* returning one: the angle is in the tree and in storage, and the log ends
\* with the call that raised.
C36_Witness ==
    /\ done.op = "setStateProperty"
    /\ done.raised
    /\ Len(listeners) = 2
    /\ listeners[1].cb = "boom"
    /\ listeners[2].cb = "f"
    /\ Len(done.log) = 2
    /\ GetStateProperty(state, <<"scene", "currentCameraAngle">>) = JsNumber(90)
    /\ storage = Stringify(state)

\* The number of actions on the two stacks together.
CombinedLength(tree) == Len(UndoStack(tree)) + Len(RedoStack(tree))

\* C37: in every state reached from the default tree by addToHistory, undo
\* and redo the two stacks together hold at most maxHistorySize actions, and
\* undo and redo leave the number of actions they hold together as it was.
C37_CombinedLengthBounded ==
    [][/\ CombinedLength(state) <= GetStateProperty(state, <<"history", "maxHistorySize">>).v
       /\ CombinedLength(state') <= GetStateProperty(state', <<"history", "maxHistorySize">>).v
       /\ done'.op \in {"undo", "redo"} => CombinedLength(state') = CombinedLength(state)]_vars

\* undo() has taken an action from a full undoStack: the stacks hold
\* maxHistorySize actions together, one of them on redoStack.
C37_Witness ==
    /\ done.op = "undo"
    /\ done.had = <<DefaultMaxHistorySize, 0>>
    /\ Len(UndoStack(state)) = DefaultMaxHistorySize - 1
    /\ Len(RedoStack(state)) = 1

\* C38: when addObjectToCurrentLayer is only called with a handle that no
\* layer holds and every id passed is the id of a layer, every handle stands
\* at most once in the objects of all layers together.
C38_HandlesHeldAtMostOnce ==
    \A h \in Meshes : Occurrences(layers, h) <= 1

\* C39: for every id of a layer, a moveLayerUp(id) that returns true followed
\* at once by moveLayerDown(id) returns true and leaves the layers in the
\* order they had, and so does a moveLayerDown(id) that returns true followed
\* by moveLayerUp(id).
C39_MoveUpThenDownRestores ==
    \A id \in LayerIds(layers) :
        LET up == MoveLayerUp(Here, id)
            down == MoveLayerDown(Here, id)
        IN  /\ up.ret = "true" =>
                  /\ MoveLayerDown(up.store, id).ret = "true"
                  /\ MoveLayerDown(up.store, id).store = Here
            /\ down.ret = "true" =>
                  /\ MoveLayerUp(down.store, id).ret = "true"
                  /\ MoveLayerUp(down.store, id).store = Here

\* moveLayerDown(3) has returned true and left three layers in the order
\* moveLayerUp(3) had found them in.
C39_Witness ==
    /\ last.op = "moveLayerDown"
    /\ last.id = 3
    /\ last.ret = "true"
    /\ IdsOf(layers) = <<1, 2, 3>>
    /\ MoveLayerUp(Here, 3).ret = "true"
    /\ IdsOf(MoveLayerUp(Here, 3).store.layers) = <<1, 3, 2>>

\* C40: loading the page with a snapshot in storage leaves undoStack and
\* redoStack as the snapshot holds them: startup adds no history entry and
\* does not empty redoStack.
C40_StartupKeepsHistory ==
    [][(done'.op = "startup" /\ storage # NoItem)
         => /\ UndoStack(state') = UndoStack(Construct(storage, TRUE))
            /\ RedoStack(state') = RedoStack(Construct(storage, TRUE))]_vars
====
